---- MODULE Spec2Model ----
(***************************************************************************)
(* Model of the vibedispatch OSS contribution pipeline:                    *)
(*   - heuristic issue scorer        (backend/helpers/oss_helpers.py)      *)
(*   - file-backed TTL response cache (backend/services/cache.py)          *)
(*   - watchlist store and its routes (backend/routes/oss_routes.py)       *)
(*   - fork-and-assign state machine  (backend/routes/oss_routes.py,       *)
(*                                     backend/services/oss_service.py)    *)
(*   - submitted-PR polling engine    (backend/routes/oss_routes.py)       *)
(*   - stage-2 scoring pass and go-tier notification                       *)
(* Each subsystem has its own specification (SpecScore, SpecCache, ...)    *)
(* over the shared variables; the variables of the other subsystems stay   *)
(* unchanged in it.                                                        *)
(***************************************************************************)
EXTENDS Integers, Sequences, FiniteSets, TLC

VARIABLES
    \* ---- heuristic scorer ----
    issue,        \* the issue record handed to score_issue_fallback
    scored,       \* TRUE once score_issue_fallback has returned for `issue`
    scoreOut,     \* the dict returned by score_issue_fallback
    \* ---- response cache ----
    cacheFiles,   \* cache key -> the JSON file .cache/<md5(key)>.json
    clock,        \* time.time(), in seconds
    ticks,        \* number of clock advances so far (bounded)
    environ,      \* os.environ: CACHE_DISABLED, LOCAL_CACHE, FLASK_ENV, URL_PREFIX
    getRet,       \* the last get_cached call and what it returned
    setArg,       \* history: cache key -> the Python value last written by set_cached
    \* ---- watchlist store ----
    watchlist,    \* watchlist.json: sequence of WatchlistEntry
    watchOp,      \* history: the last add-target / remove-target request
    \* ---- fork-and-assign ----
    assignments,  \* assignments.json: sequence of Assignment
    fa,           \* request -> the locals and position of its fork-and-assign call
    forkState,    \* the fork of the repository on the remote: none, creating, ready
    ctxIssues,    \* issues created on the fork, in order: the upstream key of each
    copilot,      \* numbers of the fork issues the agent was assigned to
    claims,       \* claims accepted by the aggregator
    succeeded,    \* history: keys for which a call has returned success
    \* ---- stage 5: merge, submit, poll ----
    forkPrs,      \* branch -> the pull request on the fork: draft, open, merged
    readyToSubmit,\* ready-to-submit.json: sequence of ReadyToSubmitItem
    submitted,    \* submitted-prs.json: sequence of SubmittedPR
    remotePr,     \* branch -> the pull request on the upstream repository
    remoteEdits,  \* number of changes made upstream so far (bounded)
    poll,         \* poller -> the locals and position of its poll cycle
    pollNotes,    \* notification -> how many times the poll workers sent it
    probedStored, \* history: <<pr_url, state on disk>> at each probe issued
    \* ---- stage 2: scored issues ----
    aggIssues,    \* the scored issues the aggregator currently returns
    _notified_go_issues, \* ids for which the go-tier notification was sent
    goNotes,      \* issue id -> number of go-tier notifications sent
    goScored,     \* history: ids a pass returned with tier go and cvs >= 85
    stage2,       \* the locals and position of the stage-2 request
    \* ---- wait_for_fork on its own ----
    wf,           \* the arguments, locals and position of a wait_for_fork call
    \* ---- submit-to-origin on its own ----
    subResp,      \* the last submit-to-origin request, what gh did and the response
    \* ---- process restarts ----
    selected,     \* selected-issues.json
    restart,      \* history: restarts so far, and the keys assigned before the last one
    \* ---- the cache observed ----
    offSet,       \* history: the last set_cached call made while caching was disabled
    ep,           \* the last call of a cached_endpoint wrapper
    ttlSeen,      \* history: the TTLs get_cached has applied in this process
    \* ---- requests observed ----
    inval,        \* history: watchlist mutations and the list reads made since
    notifyFail,   \* history: a notification was asked for and could not be delivered
    disk,         \* submitted-prs.json while it is being saved, and the last read of it
    sub,          \* the submit-to-origin request under way, step by step
    cleared       \* the last clear_cache call: its key, what it removed, its result

scoreVars == <<issue, scored, scoreOut>>

cacheVars == <<cacheFiles, clock, ticks, environ, getRet, setArg>>

watchVars == <<watchlist, watchOp>>

forkVars == <<assignments, fa, forkState, ctxIssues, copilot, claims, succeeded>>

pollVars == <<forkPrs, readyToSubmit, submitted, remotePr, remoteEdits, poll, pollNotes,
              probedStored>>

s2Vars == <<aggIssues, _notified_go_issues, goNotes, goScored, stage2>>

cacheAux == <<offSet, ep, ttlSeen>>

obsVars == <<inval, notifyFail, disk, sub, cleared>>

auxVars == <<wf, subResp, selected, restart, cacheAux, obsVars>>

vars == <<issue, scored, scoreOut, cacheFiles, clock, ticks, environ, getRet, setArg,
          watchlist, watchOp,
          assignments, fa, forkState, ctxIssues, copilot, claims, succeeded,
          forkPrs, readyToSubmit, submitted, remotePr, remoteEdits, poll, pollNotes,
          probedStored, aggIssues, _notified_go_issues, goNotes, goScored, stage2,
          wf, subResp, selected, restart, offSet, ep, ttlSeen, inval, notifyFail, disk, sub, cleared>>

(***************************************************************************)
(* Heuristic scorer: backend/helpers/oss_helpers.py                        *)
(*                                                                         *)
(* Time is counted in hours.  A timestamp field is a record                *)
(* [kind, t]: kind "iso" is a parseable ISO-8601 string for hour t, "bad"  *)
(* a string datetime.fromisoformat rejects, "none" a missing/None field.   *)
(* A label or assignee is [shape, name]: shape "dict" is {name: ...} /     *)
(* {login: ...}, shape "str" is a bare string.  The comments field is      *)
(* [shape, n]: shape "int" is the count n, shape "list" a list of length n.*)
(***************************************************************************)
HoursPerDay == 24

\* datetime.now(timezone.utc) at the scoring call, in hours
ScoreNow == 3000

\* bound: longest labels list drawn as input
MaxLabels == 2

\* elapsed times (hours) drawn for createdAt / updatedAt; -1 is a timestamp
\* one hour in the future
Ages == {-1, 0, 14 * HoursPerDay, 14 * HoursPerDay + 1, 15 * HoursPerDay,
         90 * HoursPerDay, 90 * HoursPerDay + 23, 91 * HoursPerDay}

LabelNames == {"good first issue", "Good First Issue", "bug"}

\* str.lower() on the label names drawn
Lower(s) == IF s = "Good First Issue" THEN "good first issue" ELSE s

LabelInputs ==
    {[shape |-> "dict", name |-> "good first issue"],
     [shape |-> "str",  name |-> "Good First Issue"],
     [shape |-> "dict", name |-> "bug"],
     [shape |-> "str",  name |-> "good first issue"]}

AssigneeInputs ==
    {<<>>,
     <<[shape |-> "dict", name |-> "alice"]>>,
     <<[shape |-> "str",  name |-> "alice"]>>,
     <<[shape |-> "dict", name |-> "alice"], [shape |-> "str", name |-> "bob"]>>}

CommentInputs ==
    {[shape |-> "int", n |-> 0], [shape |-> "int", n |-> 1],
     [shape |-> "list", n |-> 0], [shape |-> "list", n |-> 2]}

CreatedInputs ==
    {[kind |-> "iso", t |-> ScoreNow - a] : a \in Ages} \cup {[kind |-> "bad", t |-> 0]}

UpdatedInputs ==
    CreatedInputs \cup {[kind |-> "none", t |-> 0]}

SeqsUpTo(S, n) == UNION {[1..k -> S] : k \in 0..n}

IssueInputs ==
    [assignees : AssigneeInputs,
     labels    : SeqsUpTo(LabelInputs, MaxLabels),
     createdAt : CreatedInputs,
     updatedAt : UpdatedInputs,
     comments  : CommentInputs]

\* (now - parsed).days : timedelta.days is the floor of the elapsed days;
\* a ValueError/AttributeError while parsing gives 0
DaysSince(now, field) ==
    IF field.kind = "iso" THEN (now - field.t) \div HoursPerDay ELSE 0

\* issue.get("updatedAt") or issue.get("createdAt", "")
UpdatedAtStr(iss) ==
    IF iss.updatedAt.kind = "none" THEN iss.createdAt ELSE iss.updatedAt

\* comments = issue.get("comments", 0); a list counts as its length
CommentCount(iss) == iss.comments.n

\* mutant of LabelNamesOf: bare strings are not taken as labels
LabelNamesOf_Mut(iss) ==
    {Lower(iss.labels[i].name) : i \in
        {j \in 1..Len(iss.labels) : iss.labels[j].shape = "dict"}}

\* label_names: lower-cased names of the dict- and str-shaped labels
LabelNamesOf(iss) ==
    {Lower(iss.labels[i].name) : i \in
        {j \in 1..Len(iss.labels) : iss.labels[j].shape \in {"dict", "str"}}}

Max2(a, b) == IF a >= b THEN a ELSE b
Min2(a, b) == IF a <= b THEN a ELSE b

TierOf(score) ==
    IF score >= 80 THEN "go"
    ELSE IF score >= 60 THEN "likely"
    ELSE IF score >= 40 THEN "maybe"
    ELSE IF score >= 20 THEN "risky"
    ELSE "skip"

\* mutant of StaleDays: the staleness threshold compared with >= instead of >
StaleDays_Mut(now, iss) == DaysSince(now, UpdatedAtStr(iss)) >= 90

StaleDays(now, iss) == DaysSince(now, UpdatedAtStr(iss)) > 90

Untriaged(now, iss) ==
    CommentCount(iss) = 0 /\ DaysSince(now, iss.createdAt) > 14

\* mutant of IsAssigned: only dict-shaped assignees count as assigned
IsAssigned_Mut(iss) ==
    \E i \in 1..Len(iss.assignees) : iss.assignees[i].shape = "dict"

\* isinstance(assignees, list) and len(assignees) > 0
IsAssigned(iss) == Len(iss.assignees) > 0

\* mutant of HeuristicScore: the good-first-issue boost is 40
HeuristicScore_Mut(now, iss) ==
    LET s0 == 50
        s1 == IF StaleDays(now, iss) THEN s0 - 30 ELSE s0
        s2 == IF Untriaged(now, iss) THEN s1 - 10 ELSE s1
        s3 == IF "good first issue" \in LabelNamesOf(iss) THEN s2 + 40 ELSE s2
    IN  Max2(0, Min2(100, s3))

HeuristicScore(now, iss) ==
    LET s0 == 50
        s1 == IF StaleDays(now, iss) THEN s0 - 30 ELSE s0
        s2 == IF Untriaged(now, iss) THEN s1 - 10 ELSE s1
        s3 == IF "good first issue" \in LabelNamesOf(iss) THEN s2 + 20 ELSE s2
    IN  Max2(0, Min2(100, s3))

score_issue_fallback(now, iss) ==
    IF IsAssigned(iss)
    THEN [cvs |-> 0, cvsTier |-> "skip", dataCompleteness |-> "partial"]
    ELSE LET score == HeuristicScore(now, iss)
         IN  [cvs |-> score, cvsTier |-> TierOf(score), dataCompleteness |-> "partial"]

NoScore == [cvs |-> -1, cvsTier |-> "none", dataCompleteness |-> "none"]

DefaultIssue ==
    [assignees |-> <<>>, labels |-> <<>>,
     createdAt |-> [kind |-> "iso", t |-> ScoreNow],
     updatedAt |-> [kind |-> "iso", t |-> ScoreNow],
     comments  |-> [shape |-> "int", n |-> 1]]

InitScore ==
    /\ issue \in IssueInputs
    /\ scored = FALSE
    /\ scoreOut = NoScore

\* the scorer is not running
IdleScore ==
    /\ issue = DefaultIssue
    /\ scored = FALSE
    /\ scoreOut = NoScore

\* one call of score_issue_fallback(issue)
ScoreIssue ==
    /\ ~scored
    /\ scoreOut' = score_issue_fallback(ScoreNow, issue)
    /\ scored' = TRUE
    /\ UNCHANGED issue



(***************************************************************************)
(* Response cache: backend/services/cache.py                               *)
(*                                                                         *)
(* A Python value is [t, v]: t its type and v its content as a sequence of *)
(* strings.  A cache file holds the JSON document                          *)
(* {"timestamp": ..., "key": ..., "data": ...}; the md5 of the key names   *)
(* the file, taken as injective on the keys used.                          *)
(***************************************************************************)
DEFAULT_TTL == 300
LOCAL_DEV_TTL == 3600

\* bound: number of clock advances in one behaviour
MaxTicks == 3

\* amounts (seconds) by which the clock advances between calls
TickSteps == {1, 299, 3300}

CacheKeys == {"oss-stage1-targets", "oss-stage2-issues"}

None == [t |-> "none", v |-> <<>>]

\* values handed to set_cached by the callers: result dicts (one of them
\* empty, hence falsy)
CacheValues ==
    {[t |-> "dict", v |-> <<"success", "issues">>],
     [t |-> "dict", v |-> <<>>]}

\* json.dump: dicts become objects, lists and tuples arrays, None null
JsonDump(py) ==
    [j |-> CASE py.t = "dict"  -> "object"
             [] py.t = "list"  -> "array"
             [] py.t = "tuple" -> "array"
             [] py.t = "none"  -> "null"
             [] OTHER          -> "string",
     v |-> py.v]

\* json.load: objects become dicts, arrays lists, null None
JsonLoad(js) ==
    [t |-> CASE js.j = "object" -> "dict"
             [] js.j = "array"  -> "list"
             [] js.j = "null"   -> "none"
             [] OTHER           -> "str",
     v |-> js.v]

NoFile == [exists |-> FALSE, timestamp |-> 0, data |-> JsonDump(None)]

\* configurations of the three flags _is_local_dev reads
EnvInputs ==
    {[LOCAL_CACHE |-> "",  FLASK_ENV |-> "",            URL_PREFIX |-> ""],
     [LOCAL_CACHE |-> "",  FLASK_ENV |-> "production",  URL_PREFIX |-> "/vibedispatch"],
     [LOCAL_CACHE |-> "1", FLASK_ENV |-> "production",  URL_PREFIX |-> "/vibedispatch"],
     [LOCAL_CACHE |-> "",  FLASK_ENV |-> "development", URL_PREFIX |-> "/vibedispatch"]}

_is_local_dev(env) ==
    IF env.LOCAL_CACHE = "1" THEN TRUE
    ELSE IF env.FLASK_ENV = "development" THEN TRUE
    ELSE IF env.URL_PREFIX = "" THEN TRUE
    ELSE FALSE

_is_cache_enabled(env) == env.CACHE_DISABLED # "1"

_get_ttl(env) == IF _is_local_dev(env) THEN LOCAL_DEV_TTL ELSE DEFAULT_TTL

\* mutant of Fresh: the expiry comparison is <= instead of <
Fresh_Mut(now, cached_time, effective_ttl) == now - cached_time <= effective_ttl

\* time.time() - cached_time < effective_ttl
Fresh(now, cached_time, effective_ttl) == now - cached_time < effective_ttl

\* mutant of set_cached: the file is written whether caching is enabled or not
set_cached_Mut(files, env, now, key, data) ==
    [files EXCEPT ![key] = [exists |-> TRUE, timestamp |-> now, data |-> JsonDump(data)]]

\* get_cached(cache_key) with no ttl override
get_cached(files, env, now, key) ==
    IF ~_is_cache_enabled(env) THEN None
    ELSE IF ~files[key].exists THEN None
    ELSE IF Fresh(now, files[key].timestamp, _get_ttl(env))
         THEN JsonLoad(files[key].data)
         ELSE None

\* the files after set_cached(cache_key, data)
set_cached(files, env, now, key, data) ==
    IF ~_is_cache_enabled(env) THEN files
    ELSE [files EXCEPT ![key] =
            [exists |-> TRUE, timestamp |-> now, data |-> JsonDump(data)]]

\* clear_cache(cache_key): <<files after, number cleared>>; "" stands for
\* a call with no key (clear all)
clear_cache(files, key) ==
    IF key # ""
    THEN IF files[key].exists
         THEN <<[files EXCEPT ![key] = NoFile], 1>>
         ELSE <<files, 0>>
    ELSE <<[k \in DOMAIN files |-> NoFile],
           Cardinality({k \in DOMAIN files : files[k].exists})>>

NoGet == [called |-> FALSE, key |-> "", result |-> None]

NoSet == [valid |-> FALSE, at |-> 0, value |-> None]

InitCache ==
    /\ cacheFiles = [k \in CacheKeys |-> NoFile]
    /\ clock = 0
    /\ ticks = 0
    /\ environ \in {[CACHE_DISABLED |-> "", LOCAL_CACHE |-> e.LOCAL_CACHE,
                     FLASK_ENV |-> e.FLASK_ENV, URL_PREFIX |-> e.URL_PREFIX] :
                        e \in EnvInputs}
    /\ getRet = NoGet
    /\ setArg = [k \in CacheKeys |-> NoSet]

\* the cache is not used
IdleCache ==
    /\ cacheFiles = [k \in CacheKeys |-> NoFile]
    /\ clock = 0
    /\ ticks = 0
    /\ environ = [CACHE_DISABLED |-> "", LOCAL_CACHE |-> "", FLASK_ENV |-> "",
                  URL_PREFIX |-> ""]
    /\ getRet = NoGet
    /\ setArg = [k \in CacheKeys |-> NoSet]

\* time passes between two calls
Tick ==
    /\ ticks < MaxTicks
    /\ \E d \in TickSteps : clock' = clock + d
    /\ ticks' = ticks + 1
    /\ getRet' = NoGet
    /\ UNCHANGED <<cacheFiles, environ, setArg>>

\* set_cached(k, val) is run
SetCachedOf(k, val) ==
    /\ cacheFiles' = set_cached(cacheFiles, environ, clock, k, val)
    /\ setArg' = IF _is_cache_enabled(environ)
                 THEN [setArg EXCEPT ![k] = [valid |-> TRUE, at |-> clock, value |-> val]]
                 ELSE setArg
    /\ getRet' = NoGet
    /\ UNCHANGED <<clock, ticks, environ>>

\* a caller runs set_cached(key, value)
SetCachedCall == \E k \in CacheKeys, val \in CacheValues : SetCachedOf(k, val)

\* get_cached(k) is run
GetCachedOf(k) ==
    /\ getRet' = [called |-> TRUE, key |-> k,
                  result |-> get_cached(cacheFiles, environ, clock, k)]
    /\ UNCHANGED <<cacheFiles, clock, ticks, environ, setArg>>

\* a caller runs get_cached(key)
GetCachedCall == \E k \in CacheKeys : GetCachedOf(k)

\* a caller runs clear_cache(key) or clear_cache()
ClearCacheCall ==
    \E k \in CacheKeys \cup {""} :
        /\ cacheFiles' = clear_cache(cacheFiles, k)[1]
        /\ setArg' = [x \in CacheKeys |->
                        IF k = "" \/ x = k THEN NoSet ELSE setArg[x]]
        /\ getRet' = NoGet
        /\ UNCHANGED <<clock, ticks, environ>>

\* the operator changes CACHE_DISABLED in the process environment
SetCacheDisabled ==
    /\ \E c \in {"", "1"} :
         /\ c # environ.CACHE_DISABLED
         /\ environ' = [environ EXCEPT !.CACHE_DISABLED = c]
    /\ getRet' = NoGet
    /\ UNCHANGED <<cacheFiles, clock, ticks, setArg>>

\* the operator changes LOCAL_CACHE / FLASK_ENV / URL_PREFIX
SetEnvFlags ==
    /\ \E e \in EnvInputs :
         /\ environ' = [environ EXCEPT !.LOCAL_CACHE = e.LOCAL_CACHE,
                                       !.FLASK_ENV = e.FLASK_ENV,
                                       !.URL_PREFIX = e.URL_PREFIX]
         /\ environ' # environ
    /\ getRet' = NoGet
    /\ UNCHANGED <<cacheFiles, clock, ticks, setArg>>

\* ---------------------------------------------------------------------
\* the cache observed: calls made while it is disabled, the TTL each get
\* applies, and the cached_endpoint decorator
\* ---------------------------------------------------------------------

NoOffSet == [valid |-> FALSE, key |-> "", value |-> None]

NoEp == [called |-> FALSE, key |-> "", got |-> None, invoked |-> 0, produced |-> None,
         returned |-> None, enabled |-> FALSE, stored |-> None]

IdleCacheAux ==
    /\ offSet = NoOffSet
    /\ ep = NoEp
    /\ ttlSeen = {}

\* a caller runs set_cached(key, value); a call made while caching is
\* disabled is remembered
SetCachedLogged ==
    \E k \in CacheKeys, val \in CacheValues :
        /\ SetCachedOf(k, val)
        /\ offSet' = IF _is_cache_enabled(environ) THEN offSet
                     ELSE [valid |-> TRUE, key |-> k, value |-> val]
        /\ UNCHANGED <<ep, ttlSeen>>

\* a caller runs get_cached(key); the effective_ttl it computes, which it
\* does once the file is found, is remembered
GetCachedLogged ==
    \E k \in CacheKeys :
        /\ GetCachedOf(k)
        /\ ttlSeen' = IF _is_cache_enabled(environ) /\ cacheFiles[k].exists
                      THEN ttlSeen \cup {_get_ttl(environ)}
                      ELSE ttlSeen
        /\ UNCHANGED <<offSet, ep>>

\* bool(value) of a Python value
PyTruthy(py) ==
    CASE py.t = "none" -> FALSE
      [] OTHER         -> py.v # <<>>

\* results the wrapped route handlers return
Produced == CacheValues

\* a request reaches a route wrapped by cached_endpoint(k); result is what
\* the wrapped function returns if it is called
CachedEndpointCall ==
    \E k \in CacheKeys, result \in Produced :
        LET cached == get_cached(cacheFiles, environ, clock, k)
        IN  /\ IF PyTruthy(cached)
               THEN /\ ep' = [called |-> TRUE, key |-> k, got |-> cached, invoked |-> 0,
                              produced |-> None, returned |-> cached,
                              enabled |-> _is_cache_enabled(environ),
                              stored |-> JsonLoad(cacheFiles[k].data)]
                    /\ UNCHANGED <<cacheFiles, setArg>>
               ELSE /\ cacheFiles' = set_cached(cacheFiles, environ, clock, k, result)
                    /\ setArg' = IF _is_cache_enabled(environ)
                                 THEN [setArg EXCEPT ![k] = [valid |-> TRUE, at |-> clock,
                                                            value |-> result]]
                                 ELSE setArg
                    /\ ep' = [called |-> TRUE, key |-> k, got |-> cached, invoked |-> 1,
                              produced |-> result, returned |-> result,
                              enabled |-> _is_cache_enabled(environ),
                              stored |-> JsonLoad(cacheFiles'[k].data)]
            /\ getRet' = NoGet
            /\ UNCHANGED <<clock, ticks, environ, offSet, ttlSeen>>

(***************************************************************************)
(* Watchlist store and its routes.                                         *)
(*                                                                         *)
(* get_local_watchlist / add_to_local_watchlist /                          *)
(* remove_from_local_watchlist are called by the routes and exercised by   *)
(* tests/test_oss_service.py, but their bodies are not part of the source  *)
(* at hand; they are modelled from the specification (sections 3 and 4.2). *)
(* A request slug "owner/repo" is given by its two parts; a slug without   *)
(* "/" by the string itself.                                               *)
(***************************************************************************)
WatchPairs ==
    {<<"vercel", "next.js">>, <<"fastify", "fastify">>, <<"a", "b-c">>, <<"a-b", "c">>}

\* slugs without "/" sent to remove-target
HyphenSlugs == {"vercel-next.js", "a-b-c", "no-such"}

SlugOf(owner, repo) == owner \o "-" \o repo

HasEntry(items, owner, repo) ==
    \E i \in 1..Len(items) : items[i].owner = owner /\ items[i].repo = repo

\* mutant of add_to_local_watchlist: the entry is appended without looking
\* for an existing one
add_to_local_watchlist_Mut(items, owner, repo, now) ==
    Append(items, [owner |-> owner, repo |-> repo, slug |-> SlugOf(owner, repo),
                   added_at |-> now])

\* OSSService.add_to_local_watchlist: the items after the call
add_to_local_watchlist(items, owner, repo, now) ==
    IF HasEntry(items, owner, repo) THEN items
    ELSE Append(items, [owner |-> owner, repo |-> repo, slug |-> SlugOf(owner, repo),
                        added_at |-> now])

\* OSSService.remove_from_local_watchlist: the items after the call
remove_from_local_watchlist(items, owner, repo) ==
    SelectSeq(items, LAMBDA e : ~(e.owner = owner /\ e.repo = repo))

\* mutant of InvalidateLists: the scored-issue entry is not cleared
InvalidateLists_Mut(files) == clear_cache(files, "oss-stage1-targets")[1]

\* clear_cache("oss-stage1-targets"); clear_cache("oss-stage2-issues")
InvalidateLists(files) ==
    clear_cache(clear_cache(files, "oss-stage1-targets")[1], "oss-stage2-issues")[1]

NoWatchOp == [op |-> "none", owner |-> "", repo |-> "", success |-> FALSE, before |-> <<>>]

InitWatch ==
    /\ watchlist = <<>>
    /\ watchOp = NoWatchOp

\* POST /api/oss/add-target with slug "owner/repo"
api_oss_add_target ==
    \E p \in WatchPairs, found \in BOOLEAN :
        LET owner == p[1]
            repo  == p[2]
        IN  IF ~found
            THEN \* gh api /repos/owner/repo failed: "Repository ... not found"
                 /\ watchOp' = [op |-> "add", owner |-> owner, repo |-> repo,
                                success |-> FALSE, before |-> watchlist]
                 /\ UNCHANGED <<watchlist, cacheVars>>
            ELSE /\ watchlist' = add_to_local_watchlist(watchlist, owner, repo, clock)
                 /\ cacheFiles' = InvalidateLists(cacheFiles)
                 /\ setArg' = [k \in CacheKeys |-> NoSet]
                 /\ getRet' = NoGet
                 /\ watchOp' = [op |-> "add", owner |-> owner, repo |-> repo,
                                success |-> TRUE, before |-> watchlist]
                 /\ UNCHANGED <<clock, ticks, environ>>

\* POST /api/oss/add-target with a slug that has no "/" or an empty part
api_oss_add_target_invalid ==
    /\ watchOp' = [op |-> "add", owner |-> "", repo |-> "", success |-> FALSE,
                   before |-> watchlist]
    /\ watchOp' # watchOp
    /\ UNCHANGED <<watchlist, cacheVars>>

\* POST /api/oss/remove-target with slug "owner/repo"
api_oss_remove_target_slash ==
    \E p \in WatchPairs :
        /\ watchlist' = remove_from_local_watchlist(watchlist, p[1], p[2])
        /\ cacheFiles' = InvalidateLists(cacheFiles)
        /\ setArg' = [k \in CacheKeys |-> NoSet]
        /\ getRet' = NoGet
        /\ watchOp' = [op |-> "remove", owner |-> p[1], repo |-> p[2],
                       success |-> TRUE, before |-> watchlist]
        /\ UNCHANGED <<clock, ticks, environ>>

\* POST /api/oss/remove-target with a hyphenated slug: the first entry with
\* that slug gives owner and repo
api_oss_remove_target_hyphen ==
    \E slug \in HyphenSlugs :
        LET hits == {i \in 1..Len(watchlist) : watchlist[i].slug = slug}
        IN  IF hits = {}
            THEN \* "Target not found"
                 /\ watchOp' = [op |-> "remove", owner |-> "", repo |-> slug,
                                success |-> FALSE, before |-> watchlist]
                 /\ watchOp' # watchOp
                 /\ UNCHANGED <<watchlist, cacheVars>>
            ELSE LET entry == watchlist[CHOOSE i \in hits : \A j \in hits : i <= j]
                 IN  /\ watchlist' = remove_from_local_watchlist(watchlist, entry.owner,
                                                                 entry.repo)
                     /\ cacheFiles' = InvalidateLists(cacheFiles)
                     /\ setArg' = [k \in CacheKeys |-> NoSet]
                     /\ getRet' = NoGet
                     /\ watchOp' = [op |-> "remove", owner |-> entry.owner,
                                    repo |-> entry.repo, success |-> TRUE,
                                    before |-> watchlist]
                     /\ UNCHANGED <<clock, ticks, environ>>

(***************************************************************************)
(* Fork-and-assign: api_oss_fork_and_assign (backend/routes/oss_routes.py) *)
(* and the OSSService methods it calls.  Each request is a thread of the   *)
(* server; every external command and every file read or write is one     *)
(* step.  A URL is the sequence of its "/"-separated parts.                *)
(***************************************************************************)
Reqs == {"r1", "r2"}

my_user == "testuser"

\* upstream issues asked for: <<origin_owner, repo, issue_number>>
FAKeys == {<<"fastify", "fastify", 42>>, <<"fastify", "fastify", 7>>}

\* bound: issues the fork accepts in one behaviour
MaxIssues == 3

\* wait_for_fork(my_user, repo, timeout=60, interval=3)
FORK_TIMEOUT == 60
FORK_INTERVAL == 3

GhErrors == {"Rate limited"}

OriginSlug(k) == k[1] \o "/" \o k[2]

\* the URL gh issue create prints for issue n of the fork
ForkIssueUrl(repo, n) ==
    <<"https:", "", "github.com", my_user, repo, "issues", ToString(n)>>

\* int(s) for the decimal strings of the issue numbers
ParseInt(str) == CHOOSE n \in 0..(MaxIssues + 1) : ToString(n) = str

\* fork_issue_url.split("/")[-1]
LastPart(url) == url[Len(url)]

\* mutant of find_assignment: the issue number is not compared
find_assignment_Mut(items, origin_slug, issue_number) ==
    LET hits == {i \in 1..Len(items) :
                    items[i].origin_slug = origin_slug /\ items[i].issue_number # issue_number}
    IN  IF hits = {} THEN <<>>
        ELSE <<items[CHOOSE i \in hits : \A j \in hits : i <= j]>>

\* OSSService.find_assignment: <<the first matching record>>, or <<>> for None
find_assignment(items, origin_slug, issue_number) ==
    LET hits == {i \in 1..Len(items) :
                    items[i].origin_slug = origin_slug /\ items[i].issue_number = issue_number}
    IN  IF hits = {} THEN <<>>
        ELSE <<items[CHOOSE i \in hits : \A j \in hits : i <= j]>>

\* the record save_assignment appends
AssignmentRecord(k, fork_issue_number, fork_issue_url, now) ==
    [origin_slug |-> OriginSlug(k), repo |-> k[2], issue_number |-> k[3],
     fork_issue_number |-> ParseInt(fork_issue_number),
     fork_issue_url |-> fork_issue_url, assigned_at |-> now]

NoUrl == <<>>

NoResp == [success |-> FALSE, already_assigned |-> FALSE, fork_issue_url |-> NoUrl,
           error |-> ""]

IdleReq ==
    [pc |-> "idle", key |-> <<"", "", 0>>, i |-> 0, url |-> NoUrl, items |-> <<>>,
     trace |-> <<>>, failed |-> {}, resp |-> NoResp, sawSuccess |-> FALSE,
     before |-> <<>>]

InitFork ==
    /\ assignments = <<>>
    /\ fa = [r \in Reqs |-> IdleReq]
    /\ forkState = "none"
    /\ ctxIssues = <<>>
    /\ copilot = {}
    /\ claims = {}
    /\ succeeded = {}

\* the position after fork_repo returned: the route returns on failure
\* mutant of AfterFork: the failure of fork_repo is not checked
AfterFork_Mut(ok) == "wait"

AfterFork(ok) == IF ok THEN "wait" ELSE "done"

\* the request arrives with all required fields; my_user is read and the
\* dossier is fetched from the aggregator when the caller sent none
FA_Begin(r, k, seen) ==
    /\ fa[r].pc = "idle"
    /\ fa' = [fa EXCEPT ![r] = [IdleReq EXCEPT !.pc = "dedup", !.key = k,
                                               !.sawSuccess = k \in succeeded,
                                               !.before = seen]]
    /\ UNCHANGED <<assignments, forkState, ctxIssues, copilot, claims, succeeded>>

\* requests are served one after the other
FA_StartSeq ==
    \E r \in Reqs, k \in FAKeys :
        /\ \A q \in Reqs : fa[q].pc = "idle"
        /\ FA_Begin(r, k, assignments)

\* requests are served by concurrent threads
FA_Start == \E r \in Reqs, k \in FAKeys : FA_Begin(r, k, <<>>)

\* a request with a required field missing is answered at once
FA_Missing ==
    \E r \in Reqs :
        /\ \A q \in Reqs : fa[q].pc = "idle"
        /\ fa' = [fa EXCEPT ![r] = [IdleReq EXCEPT !.pc = "done",
                        !.resp = [NoResp EXCEPT !.error = "Missing required fields"]]]
        /\ UNCHANGED <<assignments, forkState, ctxIssues, copilot, claims, succeeded>>

\* 0. dedup guard
FA_Dedup ==
    \E r \in Reqs :
        /\ fa[r].pc = "dedup"
        /\ LET existing == find_assignment(assignments, OriginSlug(fa[r].key), fa[r].key[3])
           IN  IF existing # <<>>
               THEN /\ fa' = [fa EXCEPT ![r].pc = "done",
                                        ![r].trace = Append(@, "dedup"),
                                        ![r].resp = [success |-> TRUE,
                                                     already_assigned |-> TRUE,
                                                     fork_issue_url |-> existing[1].fork_issue_url,
                                                     error |-> ""]]
                    /\ succeeded' = succeeded \cup {fa[r].key}
               ELSE /\ fa' = [fa EXCEPT ![r].pc = "check_fork",
                                        ![r].trace = Append(@, "dedup")]
                    /\ UNCHANGED succeeded
        /\ UNCHANGED <<assignments, forkState, ctxIssues, copilot, claims>>

\* results the existence probe (gh repo view) can give: it succeeds only
\* when the fork is there, and (Oks = BOOLEAN) may fail for any other reason
ProbeResults(Oks) == IF forkState = "ready" THEN Oks ELSE {FALSE}

\* mutant of AfterProbe: fork_repo is called whatever the probe reported
AfterProbe_Mut(exists) == "fork"

\* if not svc.check_fork_exists(my_user, repo): the step that follows the probe
AfterProbe(exists) == IF exists THEN "wait" ELSE "fork"

\* 1. check_fork_exists decides whether fork_repo is called
FA_CheckFork(Oks) ==
    \E r \in Reqs, exists \in ProbeResults(Oks) :
        /\ fa[r].pc = "check_fork"
        /\ fa' = [fa EXCEPT ![r].pc = AfterProbe(exists),
                            ![r].trace = Append(@, IF exists THEN "probe_exists"
                                                   ELSE "probe_absent")]
        /\ UNCHANGED <<assignments, forkState, ctxIssues, copilot, claims, succeeded>>

\* 1. fork_repo
FA_Fork ==
    \E r \in Reqs, ok \in BOOLEAN, err \in GhErrors :
        /\ fa[r].pc = "fork"
        /\ fa' = [fa EXCEPT ![r].pc = AfterFork(ok),
                            ![r].trace = Append(@, "fork"),
                            ![r].failed = IF ok THEN @ ELSE @ \cup {"fork"},
                            ![r].resp = IF ok THEN @
                                        ELSE [NoResp EXCEPT !.error = "Failed to fork: " \o err]]
        /\ forkState' = IF ok /\ forkState = "none" THEN "creating" ELSE forkState
        /\ UNCHANGED <<assignments, ctxIssues, copilot, claims, succeeded>>

\* the remote finishes creating the fork
ForkBecomesReady ==
    /\ forkState = "creating"
    /\ forkState' = "ready"
    /\ UNCHANGED <<assignments, fa, ctxIssues, copilot, claims, succeeded>>

\* 2. wait_for_fork: one iteration of its loop (probe, then sleep), or the
\* return False after timeout // interval iterations; i is the loop counter,
\* dead once the loop is left
FA_Wait(Oks) ==
    \E r \in Reqs, exists \in ProbeResults(Oks) :
        /\ fa[r].pc = "wait"
        /\ IF fa[r].i < FORK_TIMEOUT \div FORK_INTERVAL
           THEN IF exists
                THEN fa' = [fa EXCEPT ![r].pc = "sync", ![r].i = 0,
                                      ![r].trace = Append(@, "wait")]
                ELSE fa' = [fa EXCEPT ![r].i = @ + 1]
           ELSE fa' = [fa EXCEPT ![r].pc = "done", ![r].i = 0,
                                 ![r].trace = Append(@, "wait"),
                                 ![r].failed = @ \cup {"wait"},
                                 ![r].resp = [NoResp EXCEPT !.error = "Fork creation timed out"]]
        /\ UNCHANGED <<assignments, forkState, ctxIssues, copilot, claims, succeeded>>

\* 3. sync_fork: its result is not looked at
FA_Sync(Oks) ==
    \E r \in Reqs, ok \in Oks :
        /\ fa[r].pc = "sync"
        /\ fa' = [fa EXCEPT ![r].pc = "context",
                            ![r].trace = Append(@, "sync"),
                            ![r].failed = IF ok THEN @ ELSE @ \cup {"sync"}]
        /\ UNCHANGED <<assignments, forkState, ctxIssues, copilot, claims, succeeded>>

\* 4. build_agent_context: a failed gh issue view leaves the default text
FA_Context(Oks) ==
    \E r \in Reqs, ok \in Oks :
        /\ fa[r].pc = "context"
        /\ fa' = [fa EXCEPT ![r].pc = "create",
                            ![r].trace = Append(@, "context"),
                            ![r].failed = IF ok THEN @ ELSE @ \cup {"context"}]
        /\ UNCHANGED <<assignments, forkState, ctxIssues, copilot, claims, succeeded>>

\* 5. gh issue create on the fork
FA_Create ==
    \E r \in Reqs, ok \in BOOLEAN, err \in GhErrors :
        /\ fa[r].pc = "create"
        /\ ok => (forkState = "ready" /\ Len(ctxIssues) < MaxIssues)
        /\ IF ok
           THEN /\ ctxIssues' = Append(ctxIssues, fa[r].key)
                /\ fa' = [fa EXCEPT ![r].pc = "assign",
                                    ![r].trace = Append(@, "create"),
                                    ![r].url = ForkIssueUrl(fa[r].key[2], Len(ctxIssues) + 1)]
           ELSE /\ fa' = [fa EXCEPT ![r].pc = "done",
                                    ![r].trace = Append(@, "create"),
                                    ![r].failed = @ \cup {"create"},
                                    ![r].resp = [NoResp EXCEPT
                                        !.error = "Failed to create issue: " \o err]]
                /\ UNCHANGED ctxIssues
        /\ UNCHANGED <<assignments, forkState, copilot, claims, succeeded>>

\* 6. gh issue edit --add-assignee @Copilot: its result is not looked at
FA_Assign(Oks) ==
    \E r \in Reqs, ok \in Oks :
        /\ fa[r].pc = "assign"
        /\ fa' = [fa EXCEPT ![r].pc = "save_read",
                            ![r].trace = Append(@, "assign"),
                            ![r].failed = IF ok THEN @ ELSE @ \cup {"assign"}]
        /\ copilot' = IF ok THEN copilot \cup {ParseInt(LastPart(fa[r].url))} ELSE copilot
        /\ UNCHANGED <<assignments, forkState, ctxIssues, claims, succeeded>>

\* 7. save_assignment: items = self.get_assigned_issues()
FA_SaveRead ==
    \E r \in Reqs :
        /\ fa[r].pc = "save_read"
        /\ fa' = [fa EXCEPT ![r].pc = "save_write", ![r].items = assignments]
        /\ UNCHANGED <<assignments, forkState, ctxIssues, copilot, claims, succeeded>>

\* 7. save_assignment: items.append(...); _save_json("assignments.json", items)
FA_SaveWrite ==
    \E r \in Reqs :
        /\ fa[r].pc = "save_write"
        /\ assignments' = Append(fa[r].items,
                                 AssignmentRecord(fa[r].key, LastPart(fa[r].url),
                                                  fa[r].url, clock))
        /\ fa' = [fa EXCEPT ![r].pc = "report", ![r].trace = Append(@, "save"),
                            ![r].items = <<>>]
        /\ UNCHANGED <<forkState, ctxIssues, copilot, claims, succeeded>>

\* mutant of FA_Report: a claim the aggregator did not take fails the request
FA_Report_Mut(Oks) ==
    \E r \in Reqs, ok \in Oks :
        /\ fa[r].pc = "report"
        /\ claims' = IF ok THEN claims \cup {<<fa[r].key, fa[r].url>>} ELSE claims
        /\ fa' = [fa EXCEPT ![r].pc = "done",
                            ![r].trace = Append(@, "report"),
                            ![r].failed = IF ok THEN @ ELSE @ \cup {"report"},
                            ![r].resp = IF ok
                                        THEN [success |-> TRUE, already_assigned |-> FALSE,
                                              fork_issue_url |-> fa[r].url, error |-> ""]
                                        ELSE [NoResp EXCEPT !.error = "Failed to report claim"]]
        /\ succeeded' = IF ok THEN succeeded \cup {fa[r].key} ELSE succeeded
        /\ UNCHANGED <<assignments, forkState, ctxIssues, copilot>>

\* 8. report_claim (best-effort), then the success response
FA_Report(Oks) ==
    \E r \in Reqs, ok \in Oks :
        /\ fa[r].pc = "report"
        /\ claims' = IF ok THEN claims \cup {<<fa[r].key, fa[r].url>>} ELSE claims
        /\ fa' = [fa EXCEPT ![r].pc = "done",
                            ![r].trace = Append(@, "report"),
                            ![r].failed = IF ok THEN @ ELSE @ \cup {"report"},
                            ![r].resp = [success |-> TRUE, already_assigned |-> FALSE,
                                         fork_issue_url |-> fa[r].url, error |-> ""]]
        /\ succeeded' = succeeded \cup {fa[r].key}
        /\ UNCHANGED <<assignments, forkState, ctxIssues, copilot>>

\* the response has been sent; the thread serves the next request
FA_Finish ==
    \E r \in Reqs :
        /\ fa[r].pc = "done"
        /\ fa' = [fa EXCEPT ![r] = IdleReq]
        /\ UNCHANGED <<assignments, forkState, ctxIssues, copilot, claims, succeeded>>

(***************************************************************************)
(* Stage 5: merge-fork-pr, submit-to-origin and the submitted-PR polling   *)
(* engine (backend/routes/oss_routes.py).  A field that is None or absent  *)
(* in a stored record reads as "null" (dict.get gives None for both).      *)
(***************************************************************************)
Pollers == {"p1", "p2"}

Null == "null"

\* branches of the fork whose pull requests are merged and sent upstream
Branches == {"fix-42", "fix-7"}

StageOrigin == "fastify/fastify"

\* bound: changes made to the upstream pull requests by other people
MaxRemoteEdits == 2

\* the number the upstream repository gives the pull request of a branch
PrNumberOf(b) == IF b = "fix-42" THEN "101" ELSE "102"

\* the URL gh pr create prints
PrUrlOf(b) == <<"https:", "", "github.com", "fastify", "fastify", "pull", PrNumberOf(b)>>

TitleOf(b) == "Fix " \o b

\* time.strftime("%Y-%m-%dT%H:%M:%SZ", time.gmtime())
Strftime(now) == ToString(now)

ReviewDecisions == {"", "APPROVED", "CHANGES_REQUESTED"}

NoRemotePr == [state |-> "NONE", reviewDecision |-> ""]

\* the record save_ready_to_submit appends
ReadyItem(origin_slug, repo, branch, title, base_branch, now) ==
    [origin_slug |-> origin_slug, repo |-> repo, branch |-> branch, title |-> title,
     base_branch |-> base_branch, merged_at |-> Strftime(now)]

\* mutant of remove_ready_to_submit: items are matched by branch alone
remove_ready_to_submit_Mut(items, origin_slug, branch) ==
    SelectSeq(items, LAMBDA i : i.branch # branch)

\* OSSService.remove_ready_to_submit
remove_ready_to_submit(items, origin_slug, branch) ==
    SelectSeq(items, LAMBDA i : ~(i.origin_slug = origin_slug /\ i.branch = branch))

\* the record save_submitted_pr appends; the fields the poll adds are absent
SubmittedRecord(origin_slug, pr_url, title, now) ==
    [origin_slug |-> origin_slug, pr_url |-> pr_url, title |-> title, state |-> "open",
     submitted_at |-> Strftime(now), review_decision |-> Null, merged_at |-> Null,
     closed_at |-> Null, last_polled_at |-> Null]

\* OSSService.update_submitted_prs: the collection is replaced by the list
update_submitted_prs(items) == items

\* pr_url.rstrip("/").split("/")
RECURSIVE RStripSplit(_)
RStripSplit(url) ==
    IF url # <<>> /\ url[Len(url)] = "" THEN RStripSplit(SubSeq(url, 1, Len(url) - 1))
    ELSE IF url = <<>> THEN <<"">> ELSE url

\* what gh pr view --json state,reviewDecision,mergedAt,closedAt prints
GhData(rp) ==
    [state |-> rp.state, reviewDecision |-> rp.reviewDecision,
     mergedAt |-> IF rp.state = "MERGED" THEN "2026-02-19T00:00:00Z" ELSE Null,
     closedAt |-> IF rp.state \in {"MERGED", "CLOSED"} THEN "2026-02-19T00:00:00Z" ELSE Null]

\* results of run_gh_command + json.loads in _poll_single_pr: the command
\* fails, prints something that is not JSON, prints JSON that is not an
\* object (gh_data.get raises), or prints the object
ProbeOutcomes == {"fail", "bad_json", "not_object", "ok"}

\* mutant of MapState: a closed pull request is stored as merged
MapState_Mut(new_state) ==
    IF new_state \in {"MERGED", "CLOSED"} THEN "merged" ELSE "open"

\* the state stored for new_state
MapState(new_state) ==
    IF new_state = "MERGED" THEN "merged"
    ELSE IF new_state = "CLOSED" THEN "closed"
    ELSE "open"

\* mutant of IsOpen: terminal records are polled as well
IsOpen_Mut(pr) == TRUE

\* pr.get("state") == "open"
IsOpen(pr) == pr.state = "open"

NoNotes == <<>>

\* mutant of ReturnPr: a probe that failed still stamps the entry
ReturnPr_Mut(pr) ==
    [pr |-> [pr EXCEPT !.last_polled_at = "polled"], probed |-> FALSE, raised |-> FALSE,
     notes |-> NoNotes]

\* return pr: the entry goes back as it came and nothing is notified
ReturnPr(pr) == [pr |-> pr, probed |-> FALSE, raised |-> FALSE, notes |-> NoNotes]

\* _poll_single_pr(pr), with the outcome of its probe and the remote pull
\* requests: the entry returned, whether the probe was issued, whether the
\* worker raised, and the notifications sent
\* mutant of FeedbackDue: the comparison with the stored decision is dropped
FeedbackDue_Mut(review_decision, old_review) ==
    /\ review_decision # ""
    /\ review_decision \in {"CHANGES_REQUESTED", "APPROVED"}

\* the two conditions guarding notify_upstream_feedback
FeedbackDue(review_decision, old_review) ==
    /\ review_decision # ""
    /\ review_decision # old_review
    /\ review_decision \in {"CHANGES_REQUESTED", "APPROVED"}

_poll_single_pr(pr, outcome, remote, now) ==
    LET parts == RStripSplit(pr.pr_url)
        same == ReturnPr(pr)
    IN  IF ~IsOpen(pr) THEN same
        ELSE IF Len(parts) < 4 THEN same
        ELSE LET pr_number == parts[Len(parts)]
                 found == {b \in Branches : PrNumberOf(b) = pr_number
                                            /\ remote[b].state # "NONE"}
             IN  IF outcome = "fail" \/ found = {}
                 THEN [same EXCEPT !.probed = TRUE]
                 ELSE IF outcome = "bad_json" THEN [same EXCEPT !.probed = TRUE]
                 ELSE IF outcome = "not_object"
                 THEN [same EXCEPT !.probed = TRUE, !.raised = TRUE]
                 ELSE LET gh_data == GhData(remote[CHOOSE b \in found : TRUE])
                          new == [pr EXCEPT !.state = MapState(gh_data.state),
                                            !.review_decision = gh_data.reviewDecision,
                                            !.merged_at = gh_data.mergedAt,
                                            !.closed_at = gh_data.closedAt,
                                            !.last_polled_at = Strftime(now)]
                          merged == IF pr.state = "open" /\ new.state = "merged"
                                    THEN <<<<"merged", pr.pr_url, "">>>> ELSE <<>>
                          feedback ==
                              IF FeedbackDue(new.review_decision, pr.review_decision)
                              THEN <<<<"feedback", pr.pr_url, new.review_decision>>>>
                              ELSE <<>>
                      IN  [pr |-> new, probed |-> TRUE, raised |-> FALSE,
                           notes |-> merged \o feedback]

\* the state the collection on disk holds for a pull request
StoredState(items, pr_url) ==
    LET hits == {i \in 1..Len(items) : items[i].pr_url = pr_url}
    IN  IF hits = {} THEN "absent" ELSE items[CHOOSE i \in hits : TRUE].state

\* the notifications a worker sent, added to the count of each kind sent so far
NoteKeys == {<<kind, PrUrlOf(b), d>> : kind \in {"merged", "feedback"}, b \in Branches,
                                       d \in ReviewDecisions}

NoNoteCounts == [n \in NoteKeys |-> 0]

CountNotes(counts, notes) ==
    [n \in NoteKeys |-> counts[n] + Cardinality({i \in 1..Len(notes) : notes[i] = n})]

\* writes counts the calls of update_submitted_prs the request has made
IdlePoll ==
    [pc |-> "idle", items |-> <<>>, pending |-> {}, updated_open |-> <<>>,
     closed_prs |-> <<>>, result |-> <<>>, writes |-> 0]

\* mutant of CombineResult: the entries that were not open are left out
CombineResult_Mut(updated_open, closed_prs) == updated_open

\* items = updated_open + closed_prs
CombineResult(updated_open, closed_prs) == updated_open \o closed_prs

InitPoll ==
    /\ forkPrs = [b \in Branches |-> IF b = "fix-42" THEN "draft" ELSE "open"]
    /\ readyToSubmit = <<>>
    /\ submitted = <<>>
    /\ remotePr = [b \in Branches |-> NoRemotePr]
    /\ remoteEdits = 0
    /\ poll = [p \in Pollers |-> IdlePoll]
    /\ pollNotes = NoNoteCounts
    /\ probedStored = {}

AllPollersIdle == \A q \in Pollers : poll[q].pc = "idle"

\* POST /api/oss/merge-fork-pr for the pull request of branch b on the fork:
\* the branch is read (gh pr view), a draft is marked ready, the pull request
\* is squash-merged and, when that succeeded, recorded as ready to submit
api_oss_merge_fork_pr ==
    \E b \in Branches, missing \in BOOLEAN, viewOk \in BOOLEAN, checkOk \in BOOLEAN,
       mergeOk \in BOOLEAN :
        /\ AllPollersIdle
        /\ IF missing
           THEN UNCHANGED <<forkPrs, readyToSubmit>>
           ELSE LET pr_data == IF viewOk
                               THEN [headRefName |-> b, title |-> TitleOf(b),
                                     baseRefName |-> "main"]
                               ELSE [headRefName |-> "", title |-> "", baseRefName |-> "main"]
                    undrafted == IF checkOk /\ forkPrs[b] = "draft" THEN "open"
                                 ELSE forkPrs[b]
                IN  /\ mergeOk => undrafted = "open"
                    /\ IF mergeOk
                       THEN /\ forkPrs' = [forkPrs EXCEPT ![b] = "merged"]
                            /\ readyToSubmit' =
                                  Append(readyToSubmit,
                                         ReadyItem(StageOrigin, "fastify", pr_data.headRefName,
                                                   pr_data.title, pr_data.baseRefName, clock))
                       ELSE /\ forkPrs' = [forkPrs EXCEPT ![b] = undrafted]
                            /\ UNCHANGED readyToSubmit
        /\ UNCHANGED <<submitted, remotePr, remoteEdits, poll, pollNotes, probedStored>>

\* POST /api/oss/submit-to-origin with the fields of a ready-to-submit item
api_oss_submit_to_origin ==
    \E i \in 1..Len(readyToSubmit), ok \in BOOLEAN :
        LET item == readyToSubmit[i]
        IN  /\ AllPollersIdle
            /\ IF item.origin_slug = "" \/ item.repo = "" \/ item.branch = "" \/ item.title = ""
               THEN UNCHANGED <<readyToSubmit, submitted, remotePr>>
               ELSE /\ ok => remotePr[item.branch].state = "NONE"
                    /\ IF ok
                       THEN /\ remotePr' = [remotePr EXCEPT ![item.branch] =
                                               [state |-> "OPEN", reviewDecision |-> ""]]
                            /\ submitted' = Append(submitted,
                                                   SubmittedRecord(item.origin_slug,
                                                                   PrUrlOf(item.branch),
                                                                   item.title, clock))
                            /\ readyToSubmit' = remove_ready_to_submit(readyToSubmit,
                                                                       item.origin_slug,
                                                                       item.branch)
                       ELSE UNCHANGED <<readyToSubmit, submitted, remotePr>>
            /\ UNCHANGED <<forkPrs, remoteEdits, poll, pollNotes, probedStored>>

\* the upstream maintainers merge, close, reopen or review a pull request
RemoteEdit ==
    \E b \in Branches, st \in {"OPEN", "MERGED", "CLOSED"}, d \in ReviewDecisions :
        /\ remoteEdits < MaxRemoteEdits
        /\ remotePr[b].state \in {"OPEN", "CLOSED"}
        /\ \/ remotePr[b].state = "OPEN" /\ st \in {"MERGED", "CLOSED"}
                /\ d = remotePr[b].reviewDecision
           \/ remotePr[b].state = "CLOSED" /\ st = "OPEN" /\ d = remotePr[b].reviewDecision
           \/ remotePr[b].state = "OPEN" /\ st = "OPEN" /\ d # remotePr[b].reviewDecision
        /\ remotePr' = [remotePr EXCEPT ![b] = [state |-> st, reviewDecision |-> d]]
        /\ remoteEdits' = remoteEdits + 1
        /\ UNCHANGED <<forkPrs, readyToSubmit, submitted, poll, pollNotes, probedStored>>

\* POST /api/oss/poll-submitted-prs: the collection is read and split
PollBegin(p) ==
    /\ poll[p].pc = "idle"
    /\ LET items == submitted
           open_prs == {i \in 1..Len(items) : IsOpen(items[i])}
           closed_prs == SelectSeq(items, LAMBDA pr : ~IsOpen(pr))
       IN  poll' = [poll EXCEPT ![p] =
                       IF items = <<>> THEN [IdlePoll EXCEPT !.pc = "done"]
                       ELSE IF open_prs = {}
                       THEN [IdlePoll EXCEPT !.pc = "write", !.items = items,
                                             !.closed_prs = closed_prs, !.result = items]
                       ELSE [IdlePoll EXCEPT !.pc = "probe", !.items = items,
                                             !.pending = open_prs,
                                             !.closed_prs = closed_prs]]
    /\ UNCHANGED <<forkPrs, readyToSubmit, submitted, remotePr, remoteEdits, pollNotes,
                   probedStored>>

\* bound: notifications of one kind counted for one pull request
MaxNotes == 2

\* a poll request arrives while another may still be running
PollStart ==
    \E p \in Pollers :
        /\ \A n \in NoteKeys : pollNotes[n] < MaxNotes
        /\ PollBegin(p)

\* poll cycles are served one after the other
PollStartSeq == \E p \in Pollers : AllPollersIdle /\ PollBegin(p)

\* what becomes of a notification: DISCORD_WEBHOOK_URL is empty, requests.post
\* raises, or the webhook takes it
Deliveries == {"unset", "raises", "sent"}

\* mutant of send_discord_notification: the exception of requests.post is
\* not caught
send_discord_notification_Mut(delivery) ==
    [raised |-> delivery = "raises", delivered |-> delivery = "sent"]

\* helpers/notifications.py send_discord_notification: whether it raises and
\* whether the message reached the webhook
send_discord_notification(delivery) ==
    IF delivery = "unset" THEN [raised |-> FALSE, delivered |-> FALSE]
    ELSE IF delivery = "raises" THEN [raised |-> FALSE, delivered |-> FALSE]
    ELSE [raised |-> FALSE, delivered |-> TRUE]

\* one worker of the pool completes, its notifications meeting delivery; a
\* worker that raised contributes nothing
PollProbeOf(p, outcome, delivery) ==
        /\ poll[p].pc = "probe"
        /\ \E i \in poll[p].pending :
              LET pr == poll[p].items[i]
                  r == _poll_single_pr(pr, outcome, remotePr, clock)
                  raised == r.raised
                            \/ (r.notes # <<>> /\ send_discord_notification(delivery).raised)
                  updated == IF raised THEN poll[p].updated_open
                             ELSE Append(poll[p].updated_open, r.pr)
                  rest == poll[p].pending \ {i}
              IN  /\ poll' = [poll EXCEPT
                                 ![p].updated_open = updated,
                                 ![p].pending = rest,
                                 ![p].pc = IF rest = {} THEN "write" ELSE "probe",
                                 ![p].result = IF rest = {}
                                               THEN CombineResult(updated, poll[p].closed_prs)
                                               ELSE <<>>]
                  /\ pollNotes' = CountNotes(pollNotes, r.notes)
                  /\ probedStored' =
                        IF r.probed
                        THEN probedStored \cup {<<pr.pr_url, StoredState(submitted, pr.pr_url)>>}
                        ELSE probedStored
        /\ UNCHANGED <<forkPrs, readyToSubmit, submitted, remotePr, remoteEdits>>

\* one worker of the pool completes
PollProbe == \E p \in Pollers, outcome \in ProbeOutcomes : PollProbeOf(p, outcome, "sent")

\* one worker of the pool completes, whatever becomes of its notifications
PollProbeNotify ==
    \E p \in Pollers, outcome \in ProbeOutcomes, delivery \in Deliveries :
        /\ PollProbeOf(p, outcome, delivery)
        /\ notifyFail' = (notifyFail \/ (pollNotes' # pollNotes /\ delivery # "sent"))
        /\ UNCHANGED <<inval, disk, sub, cleared>>

\* services/oss_service.py _load_json on a file that exists: json.load of the
\* bytes on disk, which are a document only when no save is under way
_load_json(phase, content) ==
    IF phase = "closed" THEN [kind |-> "list", items |-> content]
    ELSE [kind |-> "JSONDecodeError", items |-> <<>>]

\* _save_json, open(path, "w"): the file is truncated before anything is
\* written
SaveOpen ==
    \E p \in Pollers :
        /\ poll[p].pc = "write"
        /\ disk.phase = "closed"
        /\ poll' = [poll EXCEPT ![p].pc = "saving"]
        /\ submitted' = <<>>
        /\ disk' = [disk EXCEPT !.phase = "truncated", !.pre = submitted,
                                !.post = update_submitted_prs(poll[p].result)]
        /\ UNCHANGED <<forkPrs, readyToSubmit, remotePr, remoteEdits, pollNotes,
                       probedStored, inval, notifyFail, sub, cleared>>

\* _save_json, json.dump: the buffer is flushed when it fills, so a leading
\* part of the document can reach the file before the rest
SaveFlush ==
    \E p \in Pollers :
        /\ poll[p].pc = "saving"
        /\ disk.phase = "truncated"
        /\ \E n \in 1..(Len(disk.post) - 1) : submitted' = SubSeq(disk.post, 1, n)
        /\ disk' = [disk EXCEPT !.phase = "partial"]
        /\ UNCHANGED <<forkPrs, readyToSubmit, remotePr, remoteEdits, pollNotes,
                       probedStored, poll, inval, notifyFail, sub, cleared>>

\* _save_json, leaving the with block: the rest is flushed and the file closed
SaveClose ==
    \E p \in Pollers :
        /\ poll[p].pc = "saving"
        /\ submitted' = disk.post
        /\ poll' = [poll EXCEPT ![p].pc = "done", ![p].writes = @ + 1]
        /\ disk' = [disk EXCEPT !.phase = "closed", !.pre = <<>>, !.post = <<>>]
        /\ UNCHANGED <<forkPrs, readyToSubmit, remotePr, remoteEdits, pollNotes,
                       probedStored, inval, notifyFail, sub, cleared>>

\* GET /api/oss/stage5-tracking, served by another thread: get_submitted_prs
\* reads the file as it is
api_oss_stage5_tracking ==
    LET got == _load_json(disk.phase, submitted)
        bounds == IF disk.phase = "closed" THEN {submitted} ELSE {disk.pre, disk.post}
    IN  /\ disk' = [disk EXCEPT !.read = [kind |-> got.kind,
                                          whole |-> got.kind = "list"
                                                    /\ got.items \in bounds]]
        /\ UNCHANGED <<pollVars, inval, notifyFail, sub, cleared>>

\* two pull requests have been submitted and are open upstream
InitNotify ==
    /\ forkPrs = [b \in Branches |-> "merged"]
    /\ readyToSubmit = <<>>
    /\ submitted = <<SubmittedRecord(StageOrigin, PrUrlOf("fix-42"), TitleOf("fix-42"), 0),
                     SubmittedRecord(StageOrigin, PrUrlOf("fix-7"), TitleOf("fix-7"), 0)>>
    /\ remotePr = [b \in Branches |-> [state |-> "OPEN", reviewDecision |-> ""]]
    /\ remoteEdits = 0
    /\ poll = [p \in Pollers |-> IdlePoll]
    /\ pollNotes = NoNoteCounts
    /\ probedStored = {}

\* mutant of PollWrite: the cycle answers without rewriting the collection
PollWrite_Mut ==
    \E p \in Pollers :
        /\ poll[p].pc = "write"
        /\ poll' = [poll EXCEPT ![p].pc = "done"]
        /\ UNCHANGED <<forkPrs, readyToSubmit, submitted, remotePr, remoteEdits, pollNotes,
                       probedStored>>

\* svc.update_submitted_prs(items)
PollWrite ==
    \E p \in Pollers :
        /\ poll[p].pc = "write"
        /\ submitted' = update_submitted_prs(poll[p].result)
        /\ poll' = [poll EXCEPT ![p].pc = "done", ![p].writes = @ + 1]
        /\ UNCHANGED <<forkPrs, readyToSubmit, remotePr, remoteEdits, pollNotes,
                       probedStored>>

\* the response has been sent
PollFinish ==
    \E p \in Pollers :
        /\ poll[p].pc = "done"
        /\ poll' = [poll EXCEPT ![p] = IdlePoll]
        /\ UNCHANGED <<forkPrs, readyToSubmit, submitted, remotePr, remoteEdits, pollNotes,
                       probedStored>>


(***************************************************************************)
(* Stage 2: api_oss_stage2_issues behind cached_endpoint, its fallback     *)
(* workers _fetch_repo_issues_fallback and the go-tier notification        *)
(* (backend/routes/oss_routes.py).  A dict is the sequence of its          *)
(* <<key, value>> pairs.                                                   *)
(***************************************************************************)
S2Key == "oss-stage2-issues"

\* watchlists the store can hold when a pass starts
S2Watchlists ==
    {<<>>,
     add_to_local_watchlist(<<>>, "fastify", "fastify", 0),
     add_to_local_watchlist(add_to_local_watchlist(<<>>, "fastify", "fastify", 0),
                            "vercel", "next.js", 0),
     add_to_local_watchlist(add_to_local_watchlist(<<>>, "a", "b-c", 0), "a-b", "c", 0)}

\* mutant of IssueId: the issue number is left out of the id
IssueId_Mut(owner, repo, number) == "github-" \o owner \o "-" \o repo

\* issue_id = f"github-{owner}-{repo}-{issue['number']}"
IssueId(owner, repo, number) ==
    "github-" \o owner \o "-" \o repo \o "-" \o ToString(number)

IssueUrl(owner, repo, number) ==
    "https://github.com/" \o owner \o "/" \o repo \o "/issues/" \o ToString(number)

\* an issue as gh issue list --json prints it
GhIssue(owner, repo, n, labels, assignees, comments, age) ==
    [number |-> n, title |-> "Issue " \o ToString(n), url |-> IssueUrl(owner, repo, n),
     labels |-> labels, assignees |-> assignees, comments |-> comments,
     createdAt |-> [kind |-> "iso", t |-> ScoreNow - age],
     updatedAt |-> [kind |-> "iso", t |-> ScoreNow - age]]

\* results of gh issue list for a repository: the command fails, prints
\* something that is not JSON, or prints a list of open issues
GhListOutputs(owner, repo) ==
    LET i1 == GhIssue(owner, repo, 1, <<[shape |-> "dict", name |-> "good first issue"]>>,
                      <<>>, [shape |-> "list", n |-> 2], 0)
        i2 == GhIssue(owner, repo, 2, <<[shape |-> "dict", name |-> "good first issue"]>>,
                      <<[shape |-> "dict", name |-> "alice"]>>, [shape |-> "int", n |-> 1], 0)
        i3 == GhIssue(owner, repo, 3, <<[shape |-> "str", name |-> "bug"]>>,
                      <<>>, [shape |-> "int", n |-> 0], 15 * HoursPerDay)
    IN  {[success |-> FALSE, json |-> FALSE, issues |-> <<>>],
         [success |-> TRUE,  json |-> FALSE, issues |-> <<>>],
         [success |-> TRUE,  json |-> TRUE,  issues |-> <<>>],
         [success |-> TRUE,  json |-> TRUE,  issues |-> <<i1>>],
         [success |-> TRUE,  json |-> TRUE,  issues |-> <<i3, i1>>],
         [success |-> TRUE,  json |-> TRUE,  issues |-> <<i2, i1>>]}

\* a scored issue as the aggregator returns it
AggIssue(owner, repo, n, cvs, tier) ==
    [id |-> IssueId(owner, repo, n), repo |-> owner \o "/" \o repo, number |-> n,
     title |-> "Issue " \o ToString(n), url |-> IssueUrl(owner, repo, n),
     cvs |-> cvs, cvsTier |-> tier, lifecycleStage |-> "unknown", complexity |-> "unknown",
     labels |-> <<"good first issue">>, commentCount |-> 2, assignees |-> <<>>,
     claimStatus |-> "unclaimed", createdAt |-> [kind |-> "iso", t |-> ScoreNow],
     dataCompleteness |-> "full", repoKilled |-> FALSE]

\* what get_scored_issues() gives: [] when the aggregator is not configured,
\* down or has nothing, else its list
AggResponses ==
    {<<>>,
     <<AggIssue("fastify", "fastify", 1, 90, "go")>>,
     <<AggIssue("fastify", "fastify", 1, 90, "go"),
       AggIssue("fastify", "fastify", 3, 65, "likely")>>}

S2Ids ==
    {IssueId(p[1], p[2], n) : p \in WatchPairs, n \in 1..3}

\* labels / assignees normalised to lists of strings
NormNames(xs) == [i \in 1..Len(xs) |-> xs[i].name]

\* the entry appended to scored for an issue that is not skipped
ScoredEntry(owner, repo, iss, score_data) ==
    [id |-> IssueId(owner, repo, iss.number), repo |-> owner \o "/" \o repo,
     number |-> iss.number, title |-> iss.title, url |-> iss.url,
     cvs |-> score_data.cvs, cvsTier |-> score_data.cvsTier,
     lifecycleStage |-> "unknown", complexity |-> "unknown",
     labels |-> NormNames(iss.labels), commentCount |-> CommentCount(iss),
     assignees |-> NormNames(iss.assignees), claimStatus |-> "unclaimed",
     createdAt |-> iss.createdAt, dataCompleteness |-> "partial", repoKilled |-> FALSE]

\* the loop of _fetch_repo_issues_fallback over the issues from position i:
\* the scored entries, the notified set and the ids notified, in order
RECURSIVE ScoreLoop(_, _, _, _, _, _, _)
ScoreLoop(owner, repo, issues, i, scored_so_far, notified, sent) ==
    IF i > Len(issues)
    THEN [scored |-> scored_so_far, notified |-> notified, sent |-> sent]
    ELSE LET iss == issues[i]
             score_data == score_issue_fallback(ScoreNow, iss)
             issue_id == IssueId(owner, repo, iss.number)
             notify == score_data.cvs >= 85 /\ issue_id \notin notified
         IN  IF score_data.cvsTier = "skip"
             THEN ScoreLoop(owner, repo, issues, i + 1, scored_so_far, notified, sent)
             ELSE ScoreLoop(owner, repo, issues, i + 1,
                            Append(scored_so_far, ScoredEntry(owner, repo, iss, score_data)),
                            IF notify THEN notified \cup {issue_id} ELSE notified,
                            IF notify THEN Append(sent, issue_id) ELSE sent)

\* _fetch_repo_issues_fallback(entry) given what gh issue list returned
_fetch_repo_issues_fallback(entry, gh, notified) ==
    IF ~gh.success \/ ~gh.json
    THEN [scored |-> <<>>, notified |-> notified, sent |-> <<>>]
    ELSE ScoreLoop(entry.owner, entry.repo, gh.issues, 1, <<>>, notified, <<>>)

\* mutant of SortByCvsDesc: the list is left in the order the workers finished
SortByCvsDesc_Mut(xs) == xs

\* list.sort(key=lambda x: x["cvs"], reverse=True): stable, descending
RECURSIVE SortByCvsDesc(_)
SortByCvsDesc(xs) ==
    IF xs = <<>> THEN <<>>
    ELSE LET sorted == SortByCvsDesc(SubSeq(xs, 1, Len(xs) - 1))
             x == xs[Len(xs)]
             k == Cardinality({j \in 1..Len(sorted) : sorted[j].cvs >= x.cvs})
         IN  SubSeq(sorted, 1, k) \o <<x>> \o SubSeq(sorted, k + 1, Len(sorted))

\* {"success": True, "issues": issues, "owner": my_user}
Stage2Dict(issues) ==
    [t |-> "dict", v |-> << <<"success", TRUE>>, <<"issues", issues>>, <<"owner", my_user>> >>]

IssuesOf(py) == py.v[2][2]

\* `if cached:` in cached_endpoint
Truthy(py) ==
    IF py.t = "none" THEN FALSE
    ELSE IF py.t \in {"dict", "list", "tuple"} THEN py.v # <<>>
    ELSE TRUE

\* history: the issues a worker read from gh issue list, with their repository
Fetched(entry, gh) ==
    IF ~gh.success \/ ~gh.json THEN {}
    ELSE {<<entry.owner, entry.repo, gh.issues[j]>> : j \in 1..Len(gh.issues)}

IdleS2 ==
    [pc |-> "idle", source |-> "none", local_watchlist |-> <<>>, pending |-> {},
     all_issues |-> <<>>, result |-> None, fetched |-> {}]

InitStage2 ==
    /\ aggIssues = <<>>
    /\ _notified_go_issues = {}
    /\ goNotes = [id \in S2Ids |-> 0]
    /\ goScored = {}
    /\ stage2 = IdleS2

\* the aggregator starts or stops answering, or its scores change
AggregatorChanges ==
    /\ stage2.pc = "idle"
    /\ \E a \in AggResponses : a # aggIssues /\ aggIssues' = a
    /\ UNCHANGED <<_notified_go_issues, goNotes, goScored, stage2>>

\* GET /api/oss/stage2-issues: cached_endpoint looks the key up; on a miss
\* the route asks the aggregator and, with nothing from it, reads the local
\* watchlist and submits one worker per entry
S2_Begin ==
    /\ stage2.pc = "idle"
    /\ LET cached == get_cached(cacheFiles, environ, clock, S2Key)
       IN  stage2' = IF Truthy(cached)
                 THEN [IdleS2 EXCEPT !.pc = "done", !.source = "cache", !.result = cached]
                 ELSE IF aggIssues # <<>>
                 THEN [IdleS2 EXCEPT !.pc = "store", !.source = "aggregator",
                                     !.result = Stage2Dict(aggIssues)]
                 ELSE IF watchlist = <<>>
                 THEN [IdleS2 EXCEPT !.pc = "store", !.source = "fallback",
                                     !.result = Stage2Dict(<<>>)]
                 ELSE [IdleS2 EXCEPT !.pc = "workers", !.source = "fallback",
                                     !.local_watchlist = watchlist,
                                     !.pending = 1..Len(watchlist)]
    /\ UNCHANGED <<aggIssues, _notified_go_issues, goNotes, goScored, cacheVars>>

\* one worker completes and its list is added to all_issues; after the last
\* one all_issues is sorted
S2_Worker ==
    /\ stage2.pc = "workers"
    /\ \E i \in stage2.pending :
          LET entry == stage2.local_watchlist[i]
          IN  \E gh \in GhListOutputs(entry.owner, entry.repo) :
                LET r == _fetch_repo_issues_fallback(entry, gh, _notified_go_issues)
                    all_issues == stage2.all_issues \o r.scored
                    rest == stage2.pending \ {i}
                IN  /\ _notified_go_issues' = r.notified
                    /\ goNotes' = [id \in S2Ids |->
                                     goNotes[id] + Cardinality({j \in 1..Len(r.sent) :
                                                                  r.sent[j] = id})]
                    /\ stage2' = IF rest = {}
                             THEN [stage2 EXCEPT !.pc = "store", !.pending = rest,
                                             !.all_issues = <<>>,
                                             !.result = Stage2Dict(SortByCvsDesc(all_issues)),
                                             !.fetched = @ \cup Fetched(entry, gh)]
                             ELSE [stage2 EXCEPT !.pending = rest, !.all_issues = all_issues,
                                                 !.fetched = @ \cup Fetched(entry, gh)]
    /\ UNCHANGED <<aggIssues, goScored, cacheVars>>

\* cached_endpoint stores the result of the route and answers with it
S2_Store ==
    /\ stage2.pc = "store"
    /\ cacheFiles' = set_cached(cacheFiles, environ, clock, S2Key, stage2.result)
    /\ goScored' = goScored \cup
                     {IssuesOf(stage2.result)[j].id : j \in
                        {n \in 1..Len(IssuesOf(stage2.result)) :
                            /\ IssuesOf(stage2.result)[n].cvsTier = "go"
                            /\ IssuesOf(stage2.result)[n].cvs >= 85}}
    /\ stage2' = [stage2 EXCEPT !.pc = "done"]
    /\ UNCHANGED <<aggIssues, _notified_go_issues, goNotes, clock, ticks, environ, getRet,
                   setArg>>

\* the response has been sent
S2_Finish ==
    /\ stage2.pc = "done"
    /\ stage2' = IdleS2
    /\ UNCHANGED <<aggIssues, _notified_go_issues, goNotes, goScored, cacheVars>>

\* the stage-2 cache entry is invalidated (add-target, remove-target, refresh)
S2_Invalidate ==
    /\ stage2.pc = "idle"
    /\ cacheFiles[S2Key].exists
    /\ cacheFiles' = InvalidateLists(cacheFiles)
    /\ UNCHANGED <<aggIssues, _notified_go_issues, goNotes, goScored, stage2, clock, ticks,
                   environ, getRet, setArg>>

(***************************************************************************)
(* OSSService.wait_for_fork(my_user, repo, timeout, interval) on its own   *)
(* (backend/services/oss_service.py), for several argument pairs.  Time    *)
(* is counted in seconds slept; a probe itself takes no time.              *)
(***************************************************************************)
\* <<timeout, interval>> pairs the method is called with
WaitArgs == {<<60, 3>>, <<9, 3>>, <<10, 3>>, <<2, 3>>, <<6, 1>>}

NoWait ==
    [pc |-> "none", timeout |-> 0, interval |-> 0, n |-> 0, elapsed |-> 0, probes |-> 0,
     okProbes |-> 0, exists |-> FALSE]

\* no call of wait_for_fork is followed
IdleWait == wf = NoWait

\* ---------------------------------------------------------------------
\* submit-to-origin with its response (routes/oss_routes.py)
\* ---------------------------------------------------------------------

OtherOrigin == "expressjs/express"

\* bound: submit-to-origin requests in one behaviour
MaxSubmits == 2

\* bound: length of the ready-to-submit collection at the start
MaxReady == 3

SubmitUser == "me"

NoSubResp ==
    [n |-> 0, origin_slug |-> "", branch |-> "", created |-> FALSE, success |-> FALSE,
     pr_url |-> <<>>, error |-> "", owner |-> ""]

IdleSub == subResp = NoSubResp

\* ready-to-submit items left by earlier merge-fork-pr requests
ReadyItems ==
    {ReadyItem(StageOrigin, "fastify", "fix-42", TitleOf("fix-42"), "main", 0),
     ReadyItem(StageOrigin, "fastify", "fix-7", TitleOf("fix-7"), "main", 0),
     ReadyItem(OtherOrigin, "express", "fix-42", TitleOf("fix-42"), "main", 0)}

ReadyLists == UNION {[1..n -> ReadyItems] : n \in 0..MaxReady}

InitSubmit ==
    /\ forkPrs = [b \in Branches |-> "merged"]
    /\ readyToSubmit \in ReadyLists
    /\ submitted = <<>>
    /\ remotePr = [b \in Branches |-> NoRemotePr]
    /\ remoteEdits = 0
    /\ poll = [p \in Pollers |-> IdlePoll]
    /\ pollNotes = NoNoteCounts
    /\ probedStored = {}
    /\ IdleSub

\* POST /api/oss/submit-to-origin with the request body data; created says
\* whether gh pr create succeeded
SubmitRequest ==
    \E origin_slug \in {StageOrigin, OtherOrigin}, branch \in Branches,
       title \in {"", "Fix it"}, created \in BOOLEAN :
        LET repo == "fastify"
            base == [NoSubResp EXCEPT !.n = subResp.n + 1, !.origin_slug = origin_slug,
                                      !.branch = branch]
        IN  /\ subResp.n < MaxSubmits
            /\ IF origin_slug = "" \/ repo = "" \/ branch = "" \/ title = ""
               THEN /\ ~created
                    /\ subResp' = [base EXCEPT !.error = "Missing required fields"]
                    /\ UNCHANGED <<readyToSubmit, submitted, remotePr>>
               ELSE /\ created => (origin_slug = StageOrigin /\ remotePr[branch].state = "NONE")
                    /\ IF created
                       THEN LET pr_url == PrUrlOf(branch)
                            IN  /\ remotePr' = [remotePr EXCEPT ![branch] =
                                                    [state |-> "OPEN", reviewDecision |-> ""]]
                                /\ submitted' = Append(submitted,
                                                       SubmittedRecord(origin_slug, pr_url,
                                                                       title, clock))
                                /\ readyToSubmit' = remove_ready_to_submit(readyToSubmit,
                                                                           origin_slug, branch)
                                /\ subResp' = [base EXCEPT !.created = TRUE,
                                                           !.success = TRUE,
                                                           !.pr_url = pr_url,
                                                           !.owner = SubmitUser]
                       ELSE /\ subResp' = [base EXCEPT !.error = "Failed to create PR",
                                                       !.owner = SubmitUser]
                            /\ UNCHANGED <<readyToSubmit, submitted, remotePr>>
            /\ UNCHANGED <<forkPrs, remoteEdits, poll, pollNotes, probedStored, wf>>

\* bound: times the process dies in the middle of a submit-to-origin request
MaxCrashes == 1

\* submit-to-origin for an item of ready-to-submit: gh pr create succeeded
SubmitCreate ==
    \E i \in 1..Len(readyToSubmit) :
        LET item == readyToSubmit[i]
        IN  /\ sub.pc = "idle"
            /\ item.origin_slug = StageOrigin
            /\ item.repo # "" /\ item.branch # "" /\ item.title # ""
            /\ remotePr[item.branch].state = "NONE"
            /\ remotePr' = [remotePr EXCEPT ![item.branch] =
                                [state |-> "OPEN", reviewDecision |-> ""]]
            /\ sub' = [sub EXCEPT !.pc = "created", !.origin_slug = item.origin_slug,
                                  !.branch = item.branch, !.title = item.title]
            /\ UNCHANGED <<forkPrs, readyToSubmit, submitted, remoteEdits, poll, pollNotes,
                           probedStored, wf, subResp>>

\* mutant of SubmitSave: the item is removed before the SubmittedPR is saved
SubmitSave_Mut ==
    /\ sub.pc = "created"
    /\ readyToSubmit' = remove_ready_to_submit(readyToSubmit, sub.origin_slug, sub.branch)
    /\ sub' = [sub EXCEPT !.pc = "saved"]
    /\ UNCHANGED <<forkPrs, submitted, remotePr, remoteEdits, poll, pollNotes,
                   probedStored, wf, subResp>>

\* svc.save_submitted_pr(origin_slug, pr_url, title)
SubmitSave ==
    /\ sub.pc = "created"
    /\ submitted' = Append(submitted,
                           SubmittedRecord(sub.origin_slug, PrUrlOf(sub.branch), sub.title,
                                           clock))
    /\ sub' = [sub EXCEPT !.pc = "saved"]
    /\ UNCHANGED <<forkPrs, readyToSubmit, remotePr, remoteEdits, poll, pollNotes,
                   probedStored, wf, subResp>>

\* svc.remove_ready_to_submit(origin_slug, branch), then the success response
SubmitRemove ==
    /\ sub.pc = "saved"
    /\ readyToSubmit' = remove_ready_to_submit(readyToSubmit, sub.origin_slug, sub.branch)
    /\ sub' = [sub EXCEPT !.pc = "idle"]
    /\ UNCHANGED <<forkPrs, submitted, remotePr, remoteEdits, poll, pollNotes,
                   probedStored, wf, subResp>>

\* the process dies between two statements of the request; the files stay as
\* they are
SubmitCrash ==
    /\ sub.pc \in {"created", "saved"}
    /\ sub.crashes < MaxCrashes
    /\ sub' = [sub EXCEPT !.pc = "idle", !.crashes = @ + 1]
    /\ UNCHANGED <<pollVars, wf, subResp>>

\* ---------------------------------------------------------------------
\* process restarts: the collections are JSON files read at every call
\* (services/oss_service.py), the notified set is a module-level set
\* (routes/oss_routes.py)
\* ---------------------------------------------------------------------

\* bound: restarts in one behaviour
MaxRestarts == 1

NoRestart == [n |-> 0, succeeded |-> {}]

IdleRestart ==
    /\ selected = <<>>
    /\ restart = NoRestart

\* OSSService.find_selected_issue: the matching indices
find_selected_issue(items, origin_slug, issue_number) ==
    {i \in 1..Len(items) : items[i].origin_slug = origin_slug
                           /\ items[i].issue_number = issue_number}

\* OSSService.select_issue
select_issue(items, origin_slug, issue_number, issue_title, issue_url, now) ==
    IF find_selected_issue(items, origin_slug, issue_number) # {}
    THEN items
    ELSE Append(items, [origin_slug |-> origin_slug, issue_number |-> issue_number,
                        issue_title |-> issue_title, issue_url |-> issue_url,
                        selected_at |-> Strftime(now)])

\* POST /api/oss/select-issue
api_oss_select_issue ==
    \E k \in FAKeys, missing \in BOOLEAN :
        /\ \A r \in Reqs : fa[r].pc = "idle"
        /\ IF missing
           THEN UNCHANGED selected
           ELSE IF find_selected_issue(selected, OriginSlug(k), k[3]) # {}
           THEN UNCHANGED selected
           ELSE selected' = select_issue(selected, OriginSlug(k), k[3], "Bug", "", clock)
        /\ UNCHANGED <<scoreVars, cacheVars, watchVars, forkVars, pollVars, s2Vars, wf, subResp,
                       restart, cacheAux, obsVars>>

\* what the stores hold when the behaviour starts: nothing, or the records
\* earlier add-target, merge-fork-pr and submit-to-origin requests left
RestartLedgers ==
    {[watchlist |-> <<>>, ready |-> <<>>, submitted |-> <<>>],
     [watchlist |-> add_to_local_watchlist(<<>>, "fastify", "fastify", 0),
      ready |-> <<ReadyItem(StageOrigin, "fastify", "fix-7", TitleOf("fix-7"), "main", 0)>>,
      submitted |-> <<SubmittedRecord(StageOrigin, PrUrlOf("fix-42"), TitleOf("fix-42"), 0)>>]}

InitLedger ==
    \E L \in RestartLedgers :
        /\ watchlist = L.watchlist
        /\ watchOp = NoWatchOp
        /\ forkPrs = [b \in Branches |-> "merged"]
        /\ readyToSubmit = L.ready
        /\ submitted = L.submitted
        /\ remotePr = [b \in Branches |->
                          IF b = "fix-42" /\ L.submitted # <<>>
                          THEN [state |-> "OPEN", reviewDecision |-> ""] ELSE NoRemotePr]
        /\ remoteEdits = 0
        /\ poll = [p \in Pollers |-> IdlePoll]
        /\ pollNotes = NoNoteCounts
        /\ probedStored = {}

\* mutant of Restart: the assignments are kept in memory and lost
Restart_Mut ==
    /\ restart.n < MaxRestarts
    /\ \A r \in Reqs : fa[r].pc = "idle"
    /\ _notified_go_issues' = {}
    /\ assignments' = <<>>
    /\ restart' = [n |-> restart.n + 1, succeeded |-> succeeded]
    /\ UNCHANGED <<scoreVars, cacheVars, watchVars, pollVars, fa, forkState,
                   ctxIssues, copilot, claims, succeeded, aggIssues, goNotes, goScored,
                   stage2, wf, subResp, selected, cacheAux, obsVars>>

\* the server process is stopped between two requests and started again: the
\* module is loaded anew, the files stay
Restart ==
    /\ restart.n < MaxRestarts
    /\ \A r \in Reqs : fa[r].pc = "idle"
    /\ _notified_go_issues' = {}
    /\ restart' = [n |-> restart.n + 1, succeeded |-> succeeded]
    /\ UNCHANGED <<scoreVars, cacheVars, watchVars, pollVars, assignments, fa, forkState,
                   ctxIssues, copilot, claims, succeeded, aggIssues, goNotes, goScored,
                   stage2, wf, subResp, selected, cacheAux, obsVars>>

\* ---------------------------------------------------------------------
\* requests observed: histories kept next to the handlers
\* ---------------------------------------------------------------------

\* bound: watchlist mutations that succeed in one behaviour
MaxMutations == 2

NoInval == [n |-> 0, pending |-> {}, had |-> {}]

\* no save of submitted-prs.json is under way and nothing has read it
NoDisk == [phase |-> "closed", pre |-> <<>>, post |-> <<>>,
           read |-> [kind |-> "none", whole |-> TRUE]]

\* clear_cache has not been called
NoClear == [called |-> FALSE, key |-> "", removed |-> {}, n |-> 0]

\* no submit-to-origin request is under way
NoSub == [pc |-> "idle", origin_slug |-> "", branch |-> "", title |-> "", crashes |-> 0]

IdleObs ==
    /\ inval = NoInval
    /\ notifyFail = FALSE
    /\ disk = NoDisk
    /\ sub = NoSub
    /\ cleared = NoClear

\* a watchlist route is served; a mutation that succeeded is remembered with
\* the keys that were cached when it started
WatchMutation(route) ==
    /\ inval.n < MaxMutations
    /\ route
    /\ inval' = IF watchOp'.success
                THEN [n |-> inval.n + 1, pending |-> CacheKeys,
                      had |-> {k \in CacheKeys : cacheFiles[k].exists}]
                ELSE inval
    /\ UNCHANGED <<scoreVars, forkVars, pollVars, s2Vars, wf, subResp, selected, restart,
                   cacheAux, notifyFail, disk, sub, cleared>>

\* one of the two cached list routes is served; it is no longer the first
\* read of its list
ListRead ==
    /\ CachedEndpointCall
    /\ inval' = [inval EXCEPT !.pending = @ \ {ep'.key}]
    /\ UNCHANGED <<scoreVars, watchVars, forkVars, pollVars, s2Vars, wf, subResp, selected,
                   restart, notifyFail, disk, sub, cleared>>

\* the directory of the durable collections inside CACHE_DIR (OSS_DATA_DIR)
OssDirName == "oss"

\* hashlib.md5(cache_key.encode()).hexdigest(), written md5(key)
KeyHash(key) == "md5(" \o key \o ")"

\* _get_cache_path: the name of a key's file inside CACHE_DIR
_get_cache_path(key) == KeyHash(key) \o ".json"

\* os.listdir(CACHE_DIR): the files of the entries that exist and the
\* directory of the durable collections
ListCacheDir(files) ==
    {_get_cache_path(k) : k \in {x \in DOMAIN files : files[x].exists}} \cup {OssDirName}

\* mutant of EndsWithJson: clear_cache removes whatever CACHE_DIR lists
EndsWithJson_Mut(name) == TRUE

\* filename.endswith(".json") over the names CACHE_DIR can list
EndsWithJson(name) ==
    \E stem \in {KeyHash(k) : k \in CacheKeys} \cup {OssDirName} : name = stem \o ".json"

\* the names clear_cache(cache_key) removes from CACHE_DIR; "" stands for a
\* call with no key
RemovedNames(files, key) ==
    IF key # ""
    THEN IF files[key].exists THEN {_get_cache_path(key)} ELSE {}
    ELSE {name \in ListCacheDir(files) : EndsWithJson(name)}

\* clear_cache(k) with what it removed and returned kept; removing the
\* directory of the durable collections would take them with it
ClearCacheRet(k) ==
    LET removed == RemovedNames(cacheFiles, k)
    IN  /\ cacheFiles' = [x \in DOMAIN cacheFiles |->
                            IF _get_cache_path(x) \in removed THEN NoFile ELSE cacheFiles[x]]
        /\ setArg' = [x \in CacheKeys |->
                        IF k = "" \/ x = k THEN NoSet ELSE setArg[x]]
        /\ getRet' = NoGet
        /\ cleared' = [called |-> TRUE, key |-> k, removed |-> removed,
                       n |-> Cardinality(removed)]
        /\ IF OssDirName \in removed
           THEN /\ watchlist' = <<>>
                /\ selected' = <<>>
                /\ assignments' = <<>>
                /\ readyToSubmit' = <<>>
                /\ submitted' = <<>>
           ELSE UNCHANGED <<watchlist, selected, assignments, readyToSubmit, submitted>>
        /\ UNCHANGED <<scoreVars, clock, ticks, environ, watchOp, fa, forkState, ctxIssues,
                       copilot, claims, succeeded, forkPrs, remotePr, remoteEdits, poll,
                       pollNotes, probedStored, s2Vars, wf, subResp, restart, cacheAux,
                       inval, notifyFail, disk, sub>>

\* a route clears one key: clear_cache("oss-stage1-targets") or
\* clear_cache("oss-stage2-issues")
ClearCacheKey == \E k \in CacheKeys : ClearCacheRet(k)

\* POST /api/clear-cache: clear_cache() with no key (the in-memory vibecheck
\* dictionary it also empties holds none of the collections)
api_clear_cache == ClearCacheRet("")

IdleAux == IdleWait /\ IdleSub /\ IdleRestart /\ IdleCacheAux /\ IdleObs

\* the call starts, with the fork already there or not yet
InitWait ==
    \E a \in WaitArgs, e \in BOOLEAN :
        wf = [NoWait EXCEPT !.pc = "probe", !.timeout = a[1], !.interval = a[2],
                            !.exists = e]

\* the remote finishes creating the fork
Wait_ForkAppears ==
    /\ wf.pc \in {"probe", "sleep"}
    /\ ~wf.exists
    /\ wf' = [wf EXCEPT !.exists = TRUE]

\* mutant of Iterations: the loop runs once more
Iterations_Mut(timeout, interval) == timeout \div interval + 1

\* range(timeout // interval)
Iterations(timeout, interval) == timeout \div interval

\* one iteration of the loop: if self.check_fork_exists(...): return True
Wait_Probe ==
    \E ok \in BOOLEAN :
        /\ wf.pc = "probe"
        /\ wf.n < Iterations(wf.timeout, wf.interval)
        /\ ok => wf.exists
        /\ wf' = [wf EXCEPT !.pc = IF ok THEN "true" ELSE "sleep",
                            !.probes = @ + 1,
                            !.okProbes = IF ok THEN @ + 1 ELSE @]

\* time.sleep(interval), then the next iteration
Wait_Sleep ==
    /\ wf.pc = "sleep"
    /\ wf' = [wf EXCEPT !.pc = "probe", !.n = @ + 1, !.elapsed = @ + wf.interval]

\* the range is exhausted: return False
Wait_ReturnFalse ==
    /\ wf.pc = "probe"
    /\ wf.n >= Iterations(wf.timeout, wf.interval)
    /\ wf' = [wf EXCEPT !.pc = "false"]

NextCache ==
    \/ (Tick /\ UNCHANGED <<scoreVars, watchVars, forkVars, pollVars, s2Vars, auxVars>>)
    \/ (SetCachedCall /\ UNCHANGED <<scoreVars, watchVars, forkVars, pollVars, s2Vars, auxVars>>)
    \/ (GetCachedCall /\ UNCHANGED <<scoreVars, watchVars, forkVars, pollVars, s2Vars, auxVars>>)
    \/ (ClearCacheCall /\ UNCHANGED <<scoreVars, watchVars, forkVars, pollVars, s2Vars, auxVars>>)
    \/ (SetCacheDisabled /\ UNCHANGED <<scoreVars, watchVars, forkVars, pollVars, s2Vars, auxVars>>)
    \/ (SetEnvFlags /\ UNCHANGED <<scoreVars, watchVars, forkVars, pollVars, s2Vars, auxVars>>)

InitSpecCache == IdleScore /\ InitCache /\ InitWatch /\ InitFork /\ InitPoll /\ InitStage2 /\ IdleAux

SpecCache == InitSpecCache /\ [][NextCache]_vars

FrameCacheAux ==
    UNCHANGED <<scoreVars, watchVars, forkVars, pollVars, s2Vars, wf, subResp, selected, restart,
                obsVars>>

NextCacheOff ==
    \/ (SetCachedLogged /\ FrameCacheAux)
    \/ (GetCachedCall /\ UNCHANGED cacheAux /\ FrameCacheAux)
    \/ (ClearCacheCall /\ UNCHANGED cacheAux /\ FrameCacheAux)
    \/ (SetCacheDisabled /\ UNCHANGED cacheAux /\ FrameCacheAux)

\* the cache switched off and on between calls
SpecCacheOff == InitSpecCache /\ [][NextCacheOff]_vars

NextTtl ==
    \/ (Tick /\ UNCHANGED cacheAux /\ FrameCacheAux)
    \/ (SetCachedCall /\ UNCHANGED cacheAux /\ FrameCacheAux)
    \/ (GetCachedLogged /\ FrameCacheAux)
    \/ (SetEnvFlags /\ UNCHANGED cacheAux /\ FrameCacheAux)

\* the cache of one process whose environment changes between calls
SpecTtl == InitSpecCache /\ [][NextTtl]_vars

NextEndpoint ==
    \/ (Tick /\ UNCHANGED cacheAux /\ FrameCacheAux)
    \/ (CachedEndpointCall /\ FrameCacheAux)
    \/ (SetCacheDisabled /\ UNCHANGED cacheAux /\ FrameCacheAux)

\* requests to the routes wrapped by cached_endpoint
SpecEndpoint == InitSpecCache /\ [][NextEndpoint]_vars

NextInval ==
    \/ WatchMutation(api_oss_add_target)
    \/ WatchMutation(api_oss_add_target_invalid)
    \/ WatchMutation(api_oss_remove_target_slash)
    \/ WatchMutation(api_oss_remove_target_hyphen)
    \/ ListRead

\* watchlist mutations and reads of the two cached lists, one request at a time
SpecInval == InitSpecCache /\ [][NextInval]_vars

NextWatch ==
    \/ (api_oss_add_target /\ UNCHANGED <<scoreVars, forkVars, pollVars, s2Vars, auxVars>>)
    \/ (api_oss_add_target_invalid /\ UNCHANGED <<scoreVars, forkVars, pollVars, s2Vars, auxVars>>)
    \/ (api_oss_remove_target_slash /\ UNCHANGED <<scoreVars, forkVars, pollVars, s2Vars, auxVars>>)
    \/ (api_oss_remove_target_hyphen /\ UNCHANGED <<scoreVars, forkVars, pollVars, s2Vars, auxVars>>)
    \/ (SetCachedCall /\ UNCHANGED <<scoreVars, watchVars, forkVars, pollVars, s2Vars, auxVars>>)

InitSpecWatch == IdleScore /\ IdleCache /\ InitWatch /\ InitFork /\ InitPoll /\ InitStage2 /\ IdleAux

SpecWatch == InitSpecWatch /\ [][NextWatch]_vars

NextScore == ScoreIssue /\ UNCHANGED <<cacheVars, watchVars, forkVars, pollVars, s2Vars, auxVars>>

InitSpecScore == InitScore /\ IdleCache /\ InitWatch /\ InitFork /\ InitPoll /\ InitStage2 /\ IdleAux

FrameFork == UNCHANGED <<scoreVars, cacheVars, watchVars, pollVars, s2Vars, auxVars>>

\* results of the commands whose outcome the route does not look at
AnyResult == BOOLEAN
Succeeds == {TRUE}

NextForkSeq ==
    \/ (FA_StartSeq /\ FrameFork)
    \/ (FA_Missing /\ FrameFork)
    \/ (FA_Dedup /\ FrameFork)
    \/ (FA_CheckFork(AnyResult) /\ FrameFork)
    \/ (FA_Fork /\ FrameFork)
    \/ (ForkBecomesReady /\ FrameFork)
    \/ (FA_Wait(AnyResult) /\ FrameFork)
    \/ (FA_Sync(AnyResult) /\ FrameFork)
    \/ (FA_Context(AnyResult) /\ FrameFork)
    \/ (FA_Create /\ FrameFork)
    \/ (FA_Assign(AnyResult) /\ FrameFork)
    \/ (FA_SaveRead /\ FrameFork)
    \/ (FA_SaveWrite /\ FrameFork)
    \/ (FA_Report(AnyResult) /\ FrameFork)
    \/ (FA_Finish /\ FrameFork)

\* the concurrent specification follows the runs in which the commands
\* whose outcome the route ignores succeed
NextFork ==
    \/ (FA_Start /\ FrameFork)
    \/ (FA_Dedup /\ FrameFork)
    \/ (FA_CheckFork(Succeeds) /\ FrameFork)
    \/ (FA_Fork /\ FrameFork)
    \/ (ForkBecomesReady /\ FrameFork)
    \/ (FA_Wait(Succeeds) /\ FrameFork)
    \/ (FA_Sync(Succeeds) /\ FrameFork)
    \/ (FA_Context(Succeeds) /\ FrameFork)
    \/ (FA_Create /\ FrameFork)
    \/ (FA_Assign(Succeeds) /\ FrameFork)
    \/ (FA_SaveRead /\ FrameFork)
    \/ (FA_SaveWrite /\ FrameFork)
    \/ (FA_Report(Succeeds) /\ FrameFork)
    \/ (FA_Finish /\ FrameFork)

InitSpecFork == IdleScore /\ IdleCache /\ InitWatch /\ InitFork /\ InitPoll /\ InitStage2 /\ IdleAux

\* fork-and-assign requests served one at a time
SpecForkSeq == InitSpecFork /\ [][NextForkSeq]_vars

\* fork-and-assign requests served by concurrent threads
SpecFork == InitSpecFork /\ [][NextFork]_vars

SpecScore == InitSpecScore /\ [][NextScore]_vars

FramePoll == UNCHANGED <<scoreVars, cacheVars, watchVars, forkVars, s2Vars, auxVars>>

NextPollSeq ==
    \/ (api_oss_merge_fork_pr /\ FramePoll)
    \/ (api_oss_submit_to_origin /\ FramePoll)
    \/ (RemoteEdit /\ FramePoll)
    \/ (PollStartSeq /\ FramePoll)
    \/ (PollProbe /\ FramePoll)
    \/ (PollWrite /\ FramePoll)
    \/ (PollFinish /\ FramePoll)

InitSpecPoll == IdleScore /\ IdleCache /\ InitWatch /\ InitFork /\ InitPoll /\ InitStage2 /\ IdleAux

\* stage-5 requests served one at a time
SpecPollSeq == InitSpecPoll /\ [][NextPollSeq]_vars

FrameNotify ==
    UNCHANGED <<scoreVars, cacheVars, watchVars, forkVars, s2Vars, wf, subResp, selected, restart,
                cacheAux>>

NextNotify ==
    \/ (RemoteEdit /\ FrameNotify /\ UNCHANGED obsVars)
    \/ (PollStartSeq /\ FrameNotify /\ UNCHANGED obsVars)
    \/ (PollProbeNotify /\ FrameNotify)
    \/ (PollWrite /\ FrameNotify /\ UNCHANGED obsVars)
    \/ (PollFinish /\ FrameNotify /\ UNCHANGED obsVars)

InitSpecNotify ==
    IdleScore /\ IdleCache /\ InitWatch /\ InitFork /\ InitNotify /\ InitStage2 /\ IdleAux

\* poll cycles whose notifications may not get through
SpecNotify == InitSpecNotify /\ [][NextNotify]_vars

NextTorn ==
    \/ (RemoteEdit /\ FrameNotify /\ UNCHANGED obsVars)
    \/ (PollStartSeq /\ FrameNotify /\ UNCHANGED obsVars)
    \/ (PollProbe /\ FrameNotify /\ UNCHANGED obsVars)
    \/ (SaveOpen /\ FrameNotify)
    \/ (SaveFlush /\ FrameNotify)
    \/ (SaveClose /\ FrameNotify)
    \/ (PollFinish /\ FrameNotify /\ UNCHANGED obsVars)
    \/ (api_oss_stage5_tracking /\ FrameNotify)

NextPollOverlap ==
    \/ (RemoteEdit /\ FrameNotify /\ UNCHANGED obsVars)
    \/ (PollStart /\ FrameNotify /\ UNCHANGED obsVars)
    \/ (PollProbe /\ FrameNotify /\ UNCHANGED obsVars)
    \/ (PollWrite /\ FrameNotify /\ UNCHANGED obsVars)
    \/ (PollFinish /\ FrameNotify /\ UNCHANGED obsVars)

\* one pull request has been submitted and is open upstream
InitSpecOverlap ==
    /\ IdleScore /\ IdleCache /\ InitWatch /\ InitFork /\ InitStage2 /\ IdleAux
    /\ forkPrs = [b \in Branches |-> "merged"]
    /\ readyToSubmit = <<>>
    /\ submitted = <<SubmittedRecord(StageOrigin, PrUrlOf("fix-42"), TitleOf("fix-42"), 0)>>
    /\ remotePr = [b \in Branches |-> IF b = "fix-42"
                                      THEN [state |-> "OPEN", reviewDecision |-> ""]
                                      ELSE NoRemotePr]
    /\ remoteEdits = 0
    /\ poll = [p \in Pollers |-> IdlePoll]
    /\ pollNotes = NoNoteCounts
    /\ probedStored = {}

\* poll cycles served by two threads at once
SpecPollOverlap == InitSpecOverlap /\ [][NextPollOverlap]_vars

\* poll cycles whose save is read by a list request on another thread
SpecTorn == InitSpecNotify /\ [][NextTorn]_vars

FrameS2 == UNCHANGED <<scoreVars, watchVars, forkVars, pollVars, auxVars>>

NextStage2 ==
    \/ (AggregatorChanges /\ UNCHANGED cacheVars /\ FrameS2)
    \/ (S2_Begin /\ FrameS2)
    \/ (S2_Worker /\ FrameS2)
    \/ (S2_Store /\ FrameS2)
    \/ (S2_Finish /\ FrameS2)
    \/ (S2_Invalidate /\ FrameS2)

\* bound: repositories on the watchlist while stage-2 requests overlap with
\* add-target requests
MaxWatched == 2

FrameMutation == UNCHANGED <<scoreVars, forkVars, pollVars, s2Vars, auxVars>>

NextStale ==
    \/ (S2_Begin /\ FrameS2)
    \/ (S2_Worker /\ FrameS2)
    \/ (S2_Store /\ FrameS2)
    \/ (S2_Finish /\ FrameS2)
    \/ (Len(watchlist) < MaxWatched /\ api_oss_add_target /\ FrameMutation)
    \/ (api_oss_remove_target_slash /\ FrameMutation)

\* the watchlist holds one of S2Watchlists when the server starts
InitSpecStage2 ==
    /\ IdleScore /\ IdleCache /\ InitFork /\ InitPoll /\ InitStage2 /\ IdleAux
    /\ watchlist \in S2Watchlists
    /\ watchOp = NoWatchOp

\* a stage-2 request served while add-target and remove-target requests run
SpecStale == InitSpecStage2 /\ [][NextStale]_vars

\* stage-2 requests served one at a time, their workers in any order
SpecStage2 == InitSpecStage2 /\ [][NextStage2]_vars

FrameWait == UNCHANGED <<scoreVars, cacheVars, watchVars, forkVars, pollVars, s2Vars, subResp,
                         selected, restart, cacheAux, obsVars>>

NextWait ==
    \/ (Wait_ForkAppears /\ FrameWait)
    \/ (Wait_Probe /\ FrameWait)
    \/ (Wait_Sleep /\ FrameWait)
    \/ (Wait_ReturnFalse /\ FrameWait)

InitSpecWait ==
    IdleScore /\ IdleCache /\ InitWatch /\ InitFork /\ InitPoll /\ InitStage2 /\ InitWait
    /\ IdleSub /\ IdleRestart /\ IdleCacheAux /\ IdleObs

\* the statements of wait_for_fork; the fork appearing is not one of them
WaitRuns ==
    \/ (Wait_Probe /\ FrameWait)
    \/ (Wait_Sleep /\ FrameWait)
    \/ (Wait_ReturnFalse /\ FrameWait)

\* one call of wait_for_fork that is not suspended for ever: the thread keeps
\* running, probes and sleeps return
SpecWaitLive == InitSpecWait /\ [][NextWait]_vars /\ WF_vars(WaitRuns)

\* one call of wait_for_fork, for each of WaitArgs
SpecWait == InitSpecWait /\ [][NextWait]_vars

FrameSubmit ==
    UNCHANGED <<scoreVars, cacheVars, watchVars, forkVars, s2Vars, selected, restart, cacheAux,
                obsVars>>

NextSubmit == SubmitRequest /\ FrameSubmit

FrameSubmitSteps ==
    UNCHANGED <<scoreVars, cacheVars, watchVars, forkVars, s2Vars, selected, restart, cacheAux,
                inval, notifyFail, disk, cleared>>

NextSubmitSteps ==
    \/ (SubmitCreate /\ FrameSubmitSteps)
    \/ (SubmitSave /\ FrameSubmitSteps)
    \/ (SubmitRemove /\ FrameSubmitSteps)
    \/ (SubmitCrash /\ FrameSubmitSteps)

InitSpecSubmit ==
    IdleScore /\ IdleCache /\ InitWatch /\ InitFork /\ InitSubmit /\ InitStage2 /\ IdleWait
    /\ IdleRestart /\ IdleCacheAux /\ IdleObs

\* submit-to-origin requests taken statement by statement, the process dying
\* in between
SpecSubmitSteps == InitSpecSubmit /\ [][NextSubmitSteps]_vars

\* submit-to-origin requests against a ready-to-submit collection
SpecSubmit == InitSpecSubmit /\ [][NextSubmit]_vars

NextRestart ==
    \/ (FA_StartSeq /\ FrameFork)
    \/ (FA_Dedup /\ FrameFork)
    \/ (FA_CheckFork(Succeeds) /\ FrameFork)
    \/ (FA_Fork /\ FrameFork)
    \/ (ForkBecomesReady /\ FrameFork)
    \/ (FA_Wait(Succeeds) /\ FrameFork)
    \/ (FA_Sync(Succeeds) /\ FrameFork)
    \/ (FA_Context(Succeeds) /\ FrameFork)
    \/ (FA_Create /\ FrameFork)
    \/ (FA_Assign(Succeeds) /\ FrameFork)
    \/ (FA_SaveRead /\ FrameFork)
    \/ (FA_SaveWrite /\ FrameFork)
    \/ (FA_Report(Succeeds) /\ FrameFork)
    \/ (FA_Finish /\ FrameFork)
    \/ api_oss_select_issue
    \/ Restart

InitSpecRestart ==
    IdleScore /\ IdleCache /\ InitFork /\ InitLedger /\ InitStage2 /\ IdleWait /\ IdleSub
    /\ IdleRestart /\ IdleCacheAux /\ IdleObs

\* fork-and-assign and select-issue requests served one at a time by a
\* process that is restarted
SpecRestart == InitSpecRestart /\ [][NextRestart]_vars

FrameClear ==
    UNCHANGED <<scoreVars, watchVars, forkVars, pollVars, s2Vars, auxVars>>

\* time passes once, long enough for entries to expire or not
ClearTick == ticks = 0 /\ Tick

\* a cached list route stores its result
ClearFill ==
    \E k \in CacheKeys : SetCachedOf(k, [t |-> "dict", v |-> <<"success", "issues">>])

NextClear ==
    \/ (ClearTick /\ FrameClear)
    \/ (ClearFill /\ FrameClear)
    \/ (GetCachedCall /\ FrameClear)
    \/ ClearCacheKey
    \/ api_clear_cache
    \/ api_oss_select_issue

InitSpecClear ==
    IdleScore /\ InitCache /\ InitFork /\ InitLedger /\ InitStage2 /\ IdleWait /\ IdleSub
    /\ IdleRestart /\ IdleCacheAux /\ IdleObs

\* the cache filled, read and cleared next to stores that hold records
SpecClear == InitSpecClear /\ [][NextClear]_vars

(***************************************************************************)
(* Claims                                                                  *)
(***************************************************************************)

\* ---- C1 ----
RecordsFor(items, k) ==
    {i \in 1..Len(items) :
        items[i].origin_slug = k[1] \o "/" \o k[2] /\ items[i].issue_number = k[3]}

StepsOf(r) == {fa[r].trace[i] : i \in 1..Len(fa[r].trace)}

\* C1: with requests served one after the other, once a fork-and-assign call
\* for a key has succeeded there is exactly one Assignment for that key, every
\* later call for it returns success with already_assigned = true and the
\* fork_issue_url of the stored record, and the first, newly-performed call
\* returns success without the already_assigned flag.
C1_Idempotent ==
    /\ \A k \in succeeded : Cardinality(RecordsFor(assignments, k)) = 1
    /\ \A r \in Reqs :
          (fa[r].pc = "done" /\ fa[r].sawSuccess) =>
              /\ fa[r].resp.success
              /\ fa[r].resp.already_assigned
              /\ \A i \in RecordsFor(assignments, fa[r].key) :
                    fa[r].resp.fork_issue_url = assignments[i].fork_issue_url
              /\ StepsOf(r) = {"dedup"}
    /\ \A r \in Reqs :
          (fa[r].pc = "done" /\ fa[r].resp.success /\ ~fa[r].sawSuccess) =>
              ~fa[r].resp.already_assigned

\* witness of C1: a later call for issue 42 has returned the stored URL with
\* already_assigned, after issue 7 was assigned as well
C1_Witness ==
    \E r \in Reqs :
        /\ fa[r].pc = "done" /\ fa[r].sawSuccess
        /\ fa[r].key = <<"fastify", "fastify", 42>>
        /\ fa[r].resp.already_assigned
        /\ fa[r].resp.fork_issue_url =
              <<"https:", "", "github.com", "testuser", "fastify", "issues", "1">>
        /\ Len(assignments) = 2

\* ---- C2 ----
\* C2: in every reachable state, also with two fork-and-assign requests for
\* the same key interleaved, the assignments collection holds at most one
\* Assignment per key and at most one context issue was created on the fork
\* per upstream issue.
C2_AtMostOne ==
    \A k \in FAKeys :
        /\ Cardinality(RecordsFor(assignments, k)) <= 1
        /\ Cardinality({i \in 1..Len(ctxIssues) : ctxIssues[i] = k}) <= 1

\* ---- C3 ----
\* C3: across any sequence of poll cycles the stored state of a SubmittedPR
\* only moves open -> merged or open -> closed: a record that is merged or
\* closed is kept as it is by every later step, and no probe is issued for a
\* pull request whose stored state is merged or closed.
C3_Monotonic ==
    [][ /\ \A i \in 1..Len(submitted) :
              submitted[i].state # "open" =>
                  \E j \in 1..Len(submitted') : submitted'[j] = submitted[i]
        /\ \A i \in 1..Len(submitted), j \in 1..Len(submitted') :
              (submitted[i].pr_url = submitted'[j].pr_url
                  /\ submitted[i].state # submitted'[j].state)
                => (submitted[i].state = "open"
                      /\ submitted'[j].state \in {"merged", "closed"})
        /\ \A e \in probedStored' \ probedStored : e[2] = "open"
      ]_vars

\* witness of C3: a pull request stored as closed was reopened upstream, and a
\* later poll cycle that read it as closed has written the collection again
C3_Witness ==
    \E p \in Pollers, b \in Branches :
        /\ poll[p].pc = "done"
        /\ \E i \in 1..Len(poll[p].closed_prs) :
              /\ poll[p].closed_prs[i].pr_url = PrUrlOf(b)
              /\ poll[p].closed_prs[i].state = "closed"
        /\ remotePr[b].state = "OPEN"
        /\ StoredState(submitted, PrUrlOf(b)) = "closed"
        /\ <<PrUrlOf(b), "open">> \in probedStored

\* ---- C4 ----
\* C4: if any of steps 2-7 of a fork-and-assign call fails (ensure fork,
\* readiness wait, sync, context build, context-issue creation, assigning the
\* agent), the assignments collection is left unchanged and holds no record
\* for the call's key.
C4_AllOrNothing ==
    \A r \in Reqs :
        (fa[r].pc = "done"
            /\ fa[r].failed \cap {"fork", "wait", "sync", "context", "create", "assign"} # {})
          => /\ assignments = fa[r].before
             /\ RecordsFor(assignments, fa[r].key) = {}

\* ---- C5 ----
\* C5: a failed fork creation returns failure naming the fork step, a timed
\* out readiness wait returns failure with a timed-out error, a failed
\* context-issue creation returns failure naming issue creation; in each case
\* no later step runs and no Assignment is written.
C5_ShortCircuit ==
    \A r \in Reqs :
        fa[r].pc = "done" =>
            /\ "fork" \in fa[r].failed =>
                  /\ ~fa[r].resp.success
                  /\ fa[r].resp.error = "Failed to fork: Rate limited"
                  /\ StepsOf(r) \cap {"wait", "sync", "context", "create", "assign",
                                      "save", "report"} = {}
                  /\ assignments = fa[r].before
            /\ "wait" \in fa[r].failed =>
                  /\ ~fa[r].resp.success
                  /\ fa[r].resp.error = "Fork creation timed out"
                  /\ StepsOf(r) \cap {"sync", "context", "create", "assign",
                                      "save", "report"} = {}
                  /\ assignments = fa[r].before
            /\ "create" \in fa[r].failed =>
                  /\ ~fa[r].resp.success
                  /\ fa[r].resp.error = "Failed to create issue: Rate limited"
                  /\ StepsOf(r) \cap {"assign", "save", "report"} = {}
                  /\ assignments = fa[r].before

\* witness of C5: a call that had to fork has timed out waiting for the fork
C5_Witness ==
    \E r \in Reqs :
        /\ fa[r].pc = "done"
        /\ fa[r].failed = {"wait"}
        /\ fa[r].trace = <<"dedup", "probe_absent", "fork", "wait">>
        /\ fa[r].resp.error = "Fork creation timed out"
        /\ forkState = "creating"

\* ---- C6 ----
\* C6: within one process lifetime the go-tier notification has been sent
\* exactly once for every issue id that a stage-2 pass scored go-tier with
\* cvs >= 85, and never more than once for any id.
C6_ExactlyOnce ==
    /\ \A id \in goScored : goNotes[id] = 1
    /\ \A id \in S2Ids : goNotes[id] <= 1

\* ---- C11 ----
C11_Issues == IssuesOf(stage2.result)

\* the fetched issues the heuristic does not skip
C11_Kept ==
    {f \in stage2.fetched : score_issue_fallback(ScoreNow, f[3]).cvsTier # "skip"}

C11_Matches(e, f) ==
    /\ e.id = "github-" \o f[1] \o "-" \o f[2] \o "-" \o ToString(f[3].number)
    /\ e.repo = f[1] \o "/" \o f[2]
    /\ e.number = f[3].number
    /\ e.cvs = score_issue_fallback(ScoreNow, f[3]).cvs
    /\ e.cvsTier = score_issue_fallback(ScoreNow, f[3]).cvsTier
    /\ e.dataCompleteness = "partial"

C11_OneIssue ==
    GhIssue("fastify", "fastify", 1, <<[shape |-> "dict", name |-> "good first issue"]>>,
            <<>>, [shape |-> "list", n |-> 2], 0)

\* C11: the list a fallback pass returns holds exactly the fetched issues
\* whose heuristic tier is not skip (no assigned issue), each with id
\* "github-" + owner + "-" + repo + "-" + number, the heuristic cvs and
\* cvsTier and dataCompleteness "partial"; for watchlist [fastify/fastify]
\* with the one open issue #1 (good first issue, 2 comments, created today)
\* the list is one entry with cvs 70, tier likely, id github-fastify-fastify-1.
C11_FallbackList ==
    (stage2.pc \in {"store", "done"} /\ stage2.source = "fallback") =>
        /\ Len(C11_Issues) = Cardinality(C11_Kept)
        /\ \A f \in C11_Kept : \E j \in 1..Len(C11_Issues) : C11_Matches(C11_Issues[j], f)
        /\ \A j \in 1..Len(C11_Issues) :
              /\ \E f \in C11_Kept : C11_Matches(C11_Issues[j], f)
              /\ C11_Issues[j].assignees = <<>>
              /\ C11_Issues[j].cvsTier # "skip"
        /\ stage2.fetched = {<<"fastify", "fastify", C11_OneIssue>>} =>
              /\ Len(C11_Issues) = 1
              /\ C11_Issues[1].cvs = 70
              /\ C11_Issues[1].cvsTier = "likely"
              /\ C11_Issues[1].id = "github-fastify-fastify-1"

\* witness of C11: the fallback pass over [fastify/fastify] with the one
\* issue #1 has answered
C11_Witness ==
    /\ stage2.pc = "done" /\ stage2.source = "fallback"
    /\ Len(watchlist) = 1 /\ watchlist[1].owner = "fastify"
    /\ stage2.fetched = {<<"fastify", "fastify", C11_OneIssue>>}
    /\ Len(C11_Issues) = 1
    /\ C11_Issues[1].cvs = 70

\* ---- C12 ----
\* C12: wait_for_fork probes at the fixed interval, returns true at the first
\* probe that succeeds and issues no probe after it; it returns false if and
\* only if the deadline given by timeout has elapsed with no successful probe.
C12_WaitReady ==
    /\ wf.pc # "none" =>
          /\ wf.okProbes <= 1
          /\ wf.okProbes = 1 <=> wf.pc = "true"
          /\ wf.elapsed = wf.n * wf.interval
          /\ wf.pc = "true" => wf.probes = wf.n + 1
    /\ wf.pc = "false" => (wf.okProbes = 0 /\ wf.elapsed >= wf.timeout)
    /\ (wf.pc = "probe" /\ wf.elapsed >= wf.timeout) => wf.n >= wf.timeout \div wf.interval

\* ---- C13 ----
\* C13: reporting the claim is best-effort: whether or not the aggregator
\* took the claim, the Assignment written before it stays in the collection
\* and the call returns success with the new fork_issue_url.
C13_BestEffortReport ==
    \A r \in Reqs :
        (fa[r].pc = "done" /\ "report" \in StepsOf(r)) =>
            /\ fa[r].resp.success
            /\ ~fa[r].resp.already_assigned
            /\ fa[r].resp.fork_issue_url = fa[r].url
            /\ fa[r].url # NoUrl
            /\ \E i \in RecordsFor(assignments, fa[r].key) :
                  assignments[i].fork_issue_url = fa[r].url
            /\ Len(assignments) = Len(fa[r].before) + 1

\* witness of C13: the aggregator did not take the claim of a finished call
C13_Witness ==
    \E r \in Reqs :
        /\ fa[r].pc = "done"
        /\ "report" \in fa[r].failed
        /\ fa[r].resp.success
        /\ claims = {}
        /\ RecordsFor(assignments, fa[r].key) # {}

\* ---- C14 ----
\* the step is the completion of a worker that read the record of pull
\* request u as open and returned it with state st
C14_Returned(p, u, st) ==
    /\ poll[p].pc = "probe"
    /\ Len(poll'[p].updated_open) = Len(poll[p].updated_open) + 1
    /\ LET e == poll'[p].updated_open[Len(poll'[p].updated_open)]
       IN  /\ e.pr_url = u
           /\ e.state = st
    /\ \E i \in poll[p].pending \ poll'[p].pending :
          poll[p].items[i].pr_url = u /\ poll[p].items[i].state = "open"

\* C14: in a poll cycle a "merged" notification is sent for a SubmittedPR if
\* and only if its stored state was open and the state probed from the
\* remote is merged; a pull request that stays open or becomes closed gets
\* no merged notification.
C14_MergedNotification ==
    [][ \A b \in Branches :
          LET u == PrUrlOf(b)
              observed == \E p \in Pollers :
                              C14_Returned(p, u, "merged") /\ remotePr[b].state = "MERGED"
          IN  /\ pollNotes'[<<"merged", u, "">>] =
                    pollNotes[<<"merged", u, "">>] + (IF observed THEN 1 ELSE 0)
              /\ \A d \in ReviewDecisions \ {""} : pollNotes'[<<"merged", u, d>>] = 0
      ]_vars

\* witness of C14: one pull request was seen merged and notified, the other
\* was seen closed and not notified
C14_Witness ==
    /\ pollNotes[<<"merged", PrUrlOf("fix-42"), "">>] = 1
    /\ StoredState(submitted, PrUrlOf("fix-42")) = "merged"
    /\ StoredState(submitted, PrUrlOf("fix-7")) = "closed"
    /\ pollNotes[<<"merged", PrUrlOf("fix-7"), "">>] = 0

\* ---- C15 ----
\* the step is the completion of a worker that read the open record old of
\* pull request u and returned the record new
C15_Polled(p, u, old, new) ==
    /\ poll[p].pc = "probe"
    /\ Len(poll'[p].updated_open) = Len(poll[p].updated_open) + 1
    /\ new = poll'[p].updated_open[Len(poll'[p].updated_open)]
    /\ new.pr_url = u
    /\ \E i \in poll[p].pending \ poll'[p].pending :
          /\ old = poll[p].items[i]
          /\ old.pr_url = u
          /\ old.state = "open"

\* the records a worker can read and return
C15_Records ==
    UNION {{poll[p].items[i] : i \in poll[p].pending} : p \in Pollers} \cup
    UNION {{poll'[p].updated_open[i] : i \in 1..Len(poll'[p].updated_open)} : p \in Pollers}

\* C15: in a poll cycle a "feedback" notification is sent for a probed
\* SubmittedPR if and only if the remote review decision differs from the
\* stored review_decision and the new decision is CHANGES_REQUESTED or
\* APPROVED; when neither the state nor the review decision changed, no
\* notification of any kind is sent.
C15_FeedbackNotification ==
    [][ /\ \A b \in Branches, d \in ReviewDecisions :
              LET u == PrUrlOf(b)
                  observed ==
                      \E p \in Pollers, old \in C15_Records, new \in C15_Records :
                          /\ C15_Polled(p, u, old, new)
                          /\ remotePr[b].reviewDecision = d
                          /\ new.review_decision = d
                          /\ old.review_decision # d
                          /\ d \in {"CHANGES_REQUESTED", "APPROVED"}
              IN  pollNotes'[<<"feedback", u, d>>] =
                      pollNotes[<<"feedback", u, d>>] + (IF observed THEN 1 ELSE 0)
        /\ (\A b \in Branches :
              \A p \in Pollers, old \in C15_Records, new \in C15_Records :
                  (/\ C15_Polled(p, PrUrlOf(b), old, new)
                   /\ new.state = old.state
                   /\ new.review_decision = old.review_decision)
                  => pollNotes' = pollNotes)
      ]_vars

\* witness of C15: a pull request still open was polled after its review
\* decision changed to APPROVED, and one feedback notification went out
C15_Witness ==
    \E i \in 1..Len(submitted) :
        /\ submitted[i].state = "open"
        /\ submitted[i].review_decision = "APPROVED"
        /\ pollNotes[<<"feedback", submitted[i].pr_url, "APPROVED">>] = 1
        /\ pollNotes[<<"merged", submitted[i].pr_url, "">>] = 0

\* ---- C16 ----
\* the item is one the last request names by (origin_slug, branch)
C16_Matches(item, r) == item.origin_slug = r.origin_slug /\ item.branch = r.branch

\* the number of times item x occurs in the list
C16_Count(items, x) == Cardinality({i \in 1..Len(items) : items[i] = x})

\* C16: submit-to-origin moves work from ready-to-submit to submitted only on
\* success: when the upstream pull request was created, a SubmittedPR with
\* state open and the returned pr_url is appended and every ReadyToSubmitItem
\* matching (origin_slug, branch) is removed while all the others are kept;
\* when it was not, both collections are unchanged and failure is reported.
C16_SubmitMoves ==
    [][ subResp'.n = subResp.n + 1 =>
          LET r == subResp'
          IN  IF r.created
              THEN /\ r.success
                   /\ Len(submitted') = Len(submitted) + 1
                   /\ SubSeq(submitted', 1, Len(submitted)) = submitted
                   /\ submitted'[Len(submitted')].state = "open"
                   /\ submitted'[Len(submitted')].pr_url = r.pr_url
                   /\ submitted'[Len(submitted')].origin_slug = r.origin_slug
                   /\ \A i \in 1..Len(readyToSubmit') : ~C16_Matches(readyToSubmit'[i], r)
                   /\ \A x \in ReadyItems :
                         ~C16_Matches(x, r) =>
                             C16_Count(readyToSubmit', x) = C16_Count(readyToSubmit, x)
                   /\ readyToSubmit' =
                         SelectSeq(readyToSubmit, LAMBDA x : ~C16_Matches(x, r))
              ELSE /\ ~r.success
                   /\ r.error # ""
                   /\ submitted' = submitted
                   /\ readyToSubmit' = readyToSubmit
      ]_vars

\* witness of C16: a submission went through, the matching items are gone and
\* an item of another origin with the same branch is still there
C16_Witness ==
    /\ subResp.success
    /\ subResp.n = 1
    /\ Len(submitted) = 1
    /\ submitted[1].pr_url = subResp.pr_url
    /\ Len(readyToSubmit) = 1
    /\ readyToSubmit[1].origin_slug = OtherOrigin
    /\ readyToSubmit[1].branch = subResp.branch

\* ---- C17 ----
\* a fork-and-assign for a key assigned before the last restart is answered
\* by the dedup guard
C17_DedupAfterRestart ==
    \A r \in Reqs :
        (fa[r].pc = "done" /\ fa[r].key \in restart.succeeded) =>
            /\ fa[r].resp.success
            /\ fa[r].resp.already_assigned
            /\ assignments = fa[r].before
            /\ StepsOf(r) = {"dedup"}

\* C17: durable state survives a process restart: after a restart between
\* operations the watchlist, selected-issues, assignments, ready-to-submit
\* and submitted-prs collections are exactly as last written, so a
\* fork-and-assign repeated after the restart still hits the dedup guard;
\* only the notified-issue set is reset to empty.
C17_Durable ==
    [][ /\ restart'.n = restart.n + 1 =>
              /\ watchlist' = watchlist
              /\ selected' = selected
              /\ assignments' = assignments
              /\ readyToSubmit' = readyToSubmit
              /\ submitted' = submitted
              /\ _notified_go_issues' = {}
        /\ C17_DedupAfterRestart'
      ]_vars

\* witness of C17: with records in all five collections the process was
\* restarted, and a fork-and-assign for a key assigned before the restart
\* was answered with already_assigned
C17_Witness ==
    /\ restart.n = 1
    /\ watchlist # <<>> /\ selected # <<>> /\ readyToSubmit # <<>> /\ submitted # <<>>
    /\ _notified_go_issues = {}
    /\ \E r \in Reqs :
          /\ fa[r].pc = "done"
          /\ fa[r].key \in restart.succeeded
          /\ fa[r].resp.already_assigned
          /\ RecordsFor(assignments, fa[r].key) # {}

\* ---- C18 ----
\* C18: while caching is disabled, get reports absent for every key
\* (including keys stored before it was disabled) and set writes nothing, so
\* a value passed to set while disabled is still absent after caching is
\* enabled again.
C18_DisabledCache ==
    /\ (getRet.called /\ ~_is_cache_enabled(environ)) => getRet.result = None
    /\ \A k \in CacheKeys :
          /\ cacheFiles[k].exists <=> setArg[k].valid
          /\ setArg[k].valid =>
                /\ cacheFiles[k].timestamp = setArg[k].at
                /\ JsonLoad(cacheFiles[k].data) = setArg[k].value
    /\ (/\ getRet.called
        /\ _is_cache_enabled(environ)
        /\ offSet.valid
        /\ offSet.key = getRet.key
        /\ ~setArg[getRet.key].valid) => getRet.result = None

\* witness of C18: a value was passed to set while caching was disabled, and
\* with caching enabled again get reports the key absent while it returns the
\* value stored under the other key
C18_Witness ==
    /\ getRet.called
    /\ _is_cache_enabled(environ)
    /\ offSet.valid
    /\ offSet.key = getRet.key
    /\ ~setArg[getRet.key].valid
    /\ getRet.result = None
    /\ \E k \in CacheKeys \ {getRet.key} : setArg[k].valid

\* the other case of C18: a key stored before caching was disabled is
\* reported absent while it is disabled
C18_StoredButDisabled ==
    /\ getRet.called
    /\ ~_is_cache_enabled(environ)
    /\ setArg[getRet.key].valid
    /\ getRet.result = None

\* ---- C19 ----
\* C19: the caching decorator invokes the wrapped producer if and only if
\* get reports absent for its key: on a hit, for every stored value, the
\* cached value is returned verbatim and the producer is not invoked; on a
\* miss the producer is invoked exactly once and its result is stored under
\* the key and returned.
C19_ProducerIffAbsent ==
    ep.called =>
        /\ ep.invoked = 1 <=> ep.got = None
        /\ ep.got # None => ep.returned = ep.got
        /\ ep.got = None =>
              /\ ep.returned = ep.produced
              /\ ep.enabled => ep.stored = ep.produced

\* the case C19 fails on: the value found is the empty dict, and the
\* producer has been invoked all the same
C19_FalsyHit ==
    /\ ep.called
    /\ ep.got = [t |-> "dict", v |-> <<>>]
    /\ ep.invoked = 1

\* ---- C20 ----
\* C20: the effective cache TTL is selected once per process: the TTL applied
\* by get is the same for every call in one process lifetime, even if the
\* configuration flags (LOCAL_CACHE, FLASK_ENV, URL_PREFIX) change between
\* calls.
C20_TtlOncePerProcess == Cardinality(ttlSeen) <= 1

\* the case C20 fails on: both TTLs have been applied in one process
C20_BothTtls == ttlSeen = {DEFAULT_TTL, LOCAL_DEV_TTL}

\* ---- C21 ----
\* C21: every successful watchlist mutation (add-target or remove-target)
\* invalidates both the target-list cache entry and the scored-issue cache
\* entry before it returns, so the first read of either list after the
\* mutation recomputes instead of serving the value cached before it.
C21_Invalidates ==
    [][ /\ inval'.n = inval.n + 1 =>
              \A k \in CacheKeys :
                  /\ ~cacheFiles'[k].exists
                  /\ get_cached(cacheFiles', environ', clock', k) = None
        /\ \A k \in inval.pending :
              k \notin inval'.pending =>
                  /\ ep'.key = k
                  /\ ep'.got = None
                  /\ ep'.invoked = 1
                  /\ ep'.returned = ep'.produced
      ]_vars

\* witness of C21: both lists were cached when a target was removed, and the
\* first read of the scored-issue list after it called the route's function
C21_Witness ==
    /\ inval.n >= 1
    /\ inval.had = CacheKeys
    /\ watchOp.op = "remove" /\ watchOp.success
    /\ inval.pending = {"oss-stage1-targets"}
    /\ ep.called /\ ep.key = "oss-stage2-issues"
    /\ ep.got = None /\ ep.invoked = 1

\* ---- C22 ----
\* how many entries of the list carry the pr_url
C22_Count(items, u) == Cardinality({i \in 1..Len(items) : items[i].pr_url = u})

\* C22: a poll cycle never deletes or duplicates a SubmittedPR: whatever
\* each probe does (succeeds, fails, returns malformed output, or raises
\* inside its worker), the collection written at the end of the cycle holds
\* exactly the pr_url entries of the collection read at its start.
C22_NoLossNoDuplicate ==
    \A p \in Pollers :
        (poll[p].pc = "done" /\ poll[p].items # <<>>) =>
            \A b \in Branches :
                C22_Count(submitted, PrUrlOf(b)) = C22_Count(poll[p].items, PrUrlOf(b))

\* the case C22 fails on: the cycle read an open pull request and wrote a
\* collection without it
C22_Dropped ==
    \E p \in Pollers, b \in Branches :
        /\ poll[p].pc = "done"
        /\ C22_Count(poll[p].items, PrUrlOf(b)) = 1
        /\ C22_Count(submitted, PrUrlOf(b)) = 0

\* ---- C23 ----
\* dict.get(name): the value of the field, None when the record has no such key
C23_Get(rec, name) == IF name \in DOMAIN rec THEN rec[name] ELSE Null

\* the decimal numerals a pull-request number can be
C23_Numerals == {ToString(n) : n \in 0..200}

\* the number the last path segment of the URL spells, null when it spells none
C23_Parsed(pr_url) ==
    IF pr_url # <<>> /\ pr_url[Len(pr_url)] \in C23_Numerals
    THEN pr_url[Len(pr_url)] ELSE Null

\* C23: a newly saved SubmittedPR has state open, pr_number equal to the
\* integer parsed from its pr_url (the last path segment) or null when the
\* URL cannot be parsed, and review_decision, merged_at and last_polled_at
\* all null.
C23_NewSubmittedPR ==
    subResp.success =>
        LET rec == submitted[Len(submitted)]
        IN  /\ rec.state = "open"
            /\ C23_Get(rec, "pr_number") = C23_Parsed(rec.pr_url)
            /\ C23_Get(rec, "review_decision") = Null
            /\ C23_Get(rec, "merged_at") = Null
            /\ C23_Get(rec, "last_polled_at") = Null

\* the case C23 fails on: the record saved for .../pull/101 has no pr_number
C23_NoPrNumber ==
    /\ subResp.success
    /\ submitted[Len(submitted)].pr_url = PrUrlOf("fix-42")
    /\ submitted[Len(submitted)].state = "open"
    /\ C23_Parsed(submitted[Len(submitted)].pr_url) = "101"
    /\ C23_Get(submitted[Len(submitted)], "pr_number") = Null

\* ---- C24 ----
\* C24: delivering a notification never affects the operation that asked for
\* it.  send_discord_notification returns normally when the webhook is unset
\* and when the transport raises; a worker of a poll cycle that asks for a
\* notification still contributes its entry with the state and the review
\* decision GitHub reported and the time of the poll; and the cycle rewrites
\* the collection with its result and answers.
C24_NotifyReturns == \A d \in Deliveries : ~send_discord_notification(d).raised

C24_Recorded(p) ==
    LET new == poll'[p].updated_open
        e == new[Len(new)]
        b == CHOOSE c \in Branches : PrUrlOf(c) = e.pr_url
    IN  /\ Len(new) = Len(poll[p].updated_open) + 1
        /\ e.state = MapState(remotePr[b].state)
        /\ e.review_decision = remotePr[b].reviewDecision
        /\ e.last_polled_at = Strftime(clock)

C24_NotificationsHarmless ==
    [][ /\ C24_NotifyReturns
        /\ \A p \in Pollers :
              /\ (poll[p].pc = "probe" /\ poll'[p] # poll[p] /\ pollNotes' # pollNotes)
                    => C24_Recorded(p)
              /\ (poll[p].pc = "probe" /\ poll'[p].pc = "write")
                    => poll'[p].result = poll'[p].updated_open \o poll[p].closed_prs
              /\ (poll[p].pc = "write" /\ poll'[p] # poll[p])
                    => (poll'[p].pc = "done" /\ submitted' = poll[p].result) ]_vars

\* a cycle has answered after a merge was observed and its only notification
\* could not be delivered; the collection on disk holds the merged state
C24_Witness ==
    /\ notifyFail
    /\ \E p \in Pollers : poll[p].pc = "done" /\ submitted = poll[p].result
    /\ StoredState(submitted, PrUrlOf("fix-42")) = "merged"
    /\ \A n \in NoteKeys :
          pollNotes[n] = IF n = <<"merged", PrUrlOf("fix-42"), "">> THEN 1 ELSE 0

C25_TornRead ==
    /\ disk.read.kind = "JSONDecodeError"
    /\ disk.phase \in {"truncated", "partial"}
    /\ disk.pre # <<>>

\* ---- C26 ----
\* C26: in every successful fork-and-assign run the steps occur in the order
\* dedup lookup, fork (if needed), readiness wait, sync, context build,
\* context-issue creation, agent assignment, Assignment persist, claim
\* report; the Assignment is persisted only after the context issue exists
\* and the agent has been assigned, and the claim is reported only after the
\* Assignment is persisted.
C26_Orders ==
    {<<"dedup", "probe_absent", "fork", "wait", "sync", "context", "create", "assign",
       "save", "report">>,
     <<"dedup", "probe_exists", "wait", "sync", "context", "create", "assign", "save",
       "report">>}

C26_Ran(r) ==
    /\ fa[r].pc = "done"
    /\ fa[r].resp.success
    /\ ~fa[r].resp.already_assigned

\* the order of the steps alone
C26_StepOrder == \A r \in Reqs : C26_Ran(r) => fa[r].trace \in C26_Orders

C26_OrderedRun ==
    \A r \in Reqs :
        C26_Ran(r) =>
            /\ fa[r].trace \in C26_Orders
            /\ \E i \in 1..Len(ctxIssues) : ctxIssues[i] = fa[r].key
            /\ ParseInt(LastPart(fa[r].url)) \in copilot

\* a run went through its steps in order and persisted the Assignment of an
\* issue the agent was never assigned to
C26_SavedUnassigned ==
    \E r \in Reqs :
        /\ C26_Ran(r)
        /\ fa[r].trace \in C26_Orders
        /\ "assign" \in fa[r].failed
        /\ ParseInt(LastPart(fa[r].url)) \notin copilot
        /\ \E i \in 1..Len(assignments) : assignments[i].fork_issue_url = fa[r].url

\* ---- C27 ----
\* C27: a fork-and-assign call asks for the fork to be created only when its
\* own existence probe reported that there is no fork; when the probe
\* reported a fork, no fork-creation command is issued and the call goes on
\* to the readiness wait.
C27_ForkOnlyIfAbsent ==
    \A r \in Reqs :
        LET t == fa[r].trace
        IN  /\ \A i \in 1..Len(t) :
                  /\ t[i] = "fork" => (i > 1 /\ t[i - 1] = "probe_absent")
                  /\ t[i] = "probe_exists" =>
                        /\ \A j \in 1..Len(t) : t[j] # "fork"
                        /\ IF i < Len(t) THEN t[i + 1] = "wait" ELSE fa[r].pc = "wait"
            /\ fa[r].pc = "fork" => t[Len(t)] = "probe_absent"

\* a call whose probe found the fork has finished with success without ever
\* asking for a fork
C27_Witness ==
    \E r \in Reqs :
        /\ C26_Ran(r)
        /\ fa[r].trace[2] = "probe_exists"
        /\ fa[r].trace[3] = "wait"
        /\ \A j \in 1..Len(fa[r].trace) : fa[r].trace[j] # "fork"

C28_EmptyCycle ==
    \E p \in Pollers : poll[p].pc = "done" /\ poll[p].items = <<>> /\ poll[p].writes = 0

C28_Counts(p) ==
    /\ poll[p].pc \in {"idle", "probe", "write"} => poll[p].writes = 0
    /\ poll[p].pending # {} => poll[p].writes = 0
    /\ poll[p].pc = "done" => poll[p].writes = IF poll[p].items = <<>> THEN 0 ELSE 1

FailedOutcomes == {"fail", "bad_json"}

UnsplittableUrls == {<<"not-a-url">>, <<"fastify", "pull", "101">>, <<>>}

C29_Untouched(pr, r) ==
    /\ ~r.raised
    /\ r.notes = <<>>
    /\ r.pr.state = pr.state
    /\ r.pr.review_decision = pr.review_decision
    /\ r.pr.merged_at = pr.merged_at
    /\ r.pr.closed_at = pr.closed_at
    /\ r.pr.last_polled_at = pr.last_polled_at
    /\ r.pr = pr

C29_FailedProbeKeepsRecord ==
    \A p \in Pollers : \A i \in poll[p].pending :
        LET pr == poll[p].items[i]
        IN  /\ \A outcome \in FailedOutcomes :
                  C29_Untouched(pr, _poll_single_pr(pr, outcome, remotePr, clock))
            /\ \A url \in UnsplittableUrls, outcome \in ProbeOutcomes :
                  LET bad == [pr EXCEPT !.pr_url = url]
                  IN  C29_Untouched(bad, _poll_single_pr(bad, outcome, remotePr, clock))

\* a worker has returned the entry of a pull request that is merged upstream
\* as it was read: open, never polled, and nothing was notified
C29_Witness ==
    \E p \in Pollers : \E i \in 1..Len(poll[p].updated_open) :
        LET e == poll[p].updated_open[i]
        IN  /\ e.pr_url = PrUrlOf("fix-42")
            /\ remotePr["fix-42"].state = "MERGED"
            /\ e.state = "open"
            /\ e.last_polled_at = Null
            /\ \E j \in 1..Len(poll[p].items) : poll[p].items[j] = e
            /\ \A n \in NoteKeys : pollNotes[n] = 0

\* ---- C30 ----
\* C30: merge-fork-pr appends a ReadyToSubmitItem if and only if the merge on
\* the fork succeeds, and the item carries the head branch, the title and
\* the base branch of the merged pull request, read before the merge; when the
\* merge fails ready-to-submit is unchanged.
C30_MergeAppends ==
    [][ /\ \A b \in Branches :
              (forkPrs[b] # "merged" /\ forkPrs'[b] = "merged") =>
                  readyToSubmit' = Append(readyToSubmit,
                                          ReadyItem(StageOrigin, "fastify", b, TitleOf(b),
                                                    "main", clock))
        /\ Len(readyToSubmit') > Len(readyToSubmit) =>
              \E b \in Branches : forkPrs[b] # "merged" /\ forkPrs'[b] = "merged"
        /\ (forkPrs' # forkPrs /\ \A b \in Branches : forkPrs'[b] = "merged" => forkPrs[b] = "merged")
              => readyToSubmit' = readyToSubmit ]_vars

\* a pull request of the fork is merged and the item recorded for it names no
\* branch and no title
C30_BlankItem ==
    /\ \E b \in Branches : forkPrs[b] = "merged"
    /\ \E i \in 1..Len(readyToSubmit) :
          readyToSubmit[i].branch = "" /\ readyToSubmit[i].title = ""

\* ---- C31 ----
\* C31: the heuristic scorer treats both input shapes alike: an issue whose
\* labels are given as objects ({name: ...}) or as bare strings, and whose
\* assignees are given as objects ({login: ...}) or as bare strings, gets the
\* same cvs and cvsTier.
Shapes == {"dict", "str"}

\* the same labels or assignees, all given in one shape
Reshape(items, shape) == [i \in 1..Len(items) |-> [items[i] EXCEPT !.shape = shape]]

C31_ShapeIndependent ==
    scored =>
        \A ls \in Shapes, as \in Shapes :
            LET other == [issue EXCEPT !.labels = Reshape(issue.labels, ls),
                                       !.assignees = Reshape(issue.assignees, as)]
                out == score_issue_fallback(ScoreNow, other)
            IN  out.cvs = scoreOut.cvs /\ out.cvsTier = scoreOut.cvsTier

\* an unassigned fresh issue whose only good-first-issue label is a bare
\* string has been scored 70, as it is with the label given as an object
C31_Witness ==
    /\ scored
    /\ issue.assignees = <<>>
    /\ issue.labels = <<[shape |-> "str", name |-> "Good First Issue"]>>
    /\ scoreOut.cvs = 70
    /\ score_issue_fallback(ScoreNow,
                            [issue EXCEPT !.labels = Reshape(issue.labels, "dict")]).cvs = 70

\* ---- C32 ----
\* C32: the list of scored issues a stage-2 request computes in fallback
\* mode is in descending order of cvs, in whatever order the workers of the
\* repositories finish and whatever the order of the watchlist.
C32_SortedDescending ==
    (stage2.source = "fallback" /\ stage2.pc \in {"store", "done"}) =>
        LET issues == IssuesOf(stage2.result)
        IN  \A i \in 1..Len(issues), j \in 1..Len(issues) :
                i < j => issues[i].cvs >= issues[j].cvs

\* a fallback pass returns issue 1 (cvs 70) ahead of issue 3 (cvs 40), which
\* gh listed the other way round
C32_Witness ==
    /\ stage2.source = "fallback"
    /\ stage2.pc = "done"
    /\ \E entry \in {stage2.local_watchlist[k] : k \in 1..Len(stage2.local_watchlist)} :
          LET issues == IssuesOf(stage2.result)
          IN  \E i \in 1..Len(issues), j \in 1..Len(issues) :
                /\ i < j
                /\ issues[i].id = IssueId(entry.owner, entry.repo, 1)
                /\ issues[j].id = IssueId(entry.owner, entry.repo, 3)
                /\ issues[i].cvs = 70
                /\ issues[j].cvs = 40

\* ---- C33 ----
\* C33: even when two poll cycles overlap in time (each reads the collection,
\* probes, then rewrites it), the state persisted for a SubmittedPR never
\* moves from merged or closed back to open.
C33_NoRegress ==
    [][ \A b \in Branches :
            StoredState(submitted, PrUrlOf(b)) \in {"merged", "closed"}
                => StoredState(submitted', PrUrlOf(b)) # "open" ]_vars

\* a cycle that has just written a pull request as merged or closed finds it
\* stored as open again: the other cycle wrote what it had read earlier
C33_Regressed ==
    \E p \in Pollers, b \in Branches :
        /\ poll[p].pc = "done"
        /\ StoredState(poll[p].result, PrUrlOf(b)) \in {"merged", "closed"}
        /\ StoredState(submitted, PrUrlOf(b)) = "open"

\* ---- C34 ----
\* C34: no stale list outlives a watchlist mutation: once add-target or
\* remove-target has returned, the cache never holds a scored-issue value
\* computed from the watchlist as it was before that mutation, even when a
\* cached read request overlaps the mutation.
C34_NoStaleList ==
    (/\ stage2.pc = "done"
     /\ stage2.source = "fallback"
     /\ cacheFiles[S2Key].exists
     /\ JsonLoad(cacheFiles[S2Key].data) = stage2.result)
        => stage2.local_watchlist = watchlist

\* add-target has returned, and the cache holds, as a fresh entry, the list a
\* request computed from the watchlist as it was before
C34_StaleEntry ==
    /\ watchOp.op = "add"
    /\ watchOp.success
    /\ stage2.pc = "done"
    /\ stage2.source = "fallback"
    /\ stage2.local_watchlist = watchOp.before
    /\ stage2.local_watchlist # watchlist
    /\ get_cached(cacheFiles, environ, clock, S2Key) = stage2.result

\* ---- C35 ----
\* C35: across any sequence of poll cycles that do not overlap, the "merged"
\* notification is sent at most once for a SubmittedPR.
C35_MergedOnce ==
    \A b \in Branches, d \in ReviewDecisions : pollNotes[<<"merged", PrUrlOf(b), d>>] <= 1

\* a later cycle has read the pull request as merged and finished, and the
\* merged notification sent for it is still the only one
C35_Witness ==
    \E p \in Pollers :
        /\ poll[p].pc = "done"
        /\ StoredState(poll[p].items, PrUrlOf("fix-42")) = "merged"
        /\ pollNotes[<<"merged", PrUrlOf("fix-42"), "">>] = 1

\* ---- C36 ----
\* the work of branch b for the origin is on record
C36_InReady(b) ==
    \E i \in 1..Len(readyToSubmit) :
        readyToSubmit[i].origin_slug = StageOrigin /\ readyToSubmit[i].branch = b

C36_InSubmitted(b) ==
    \E i \in 1..Len(submitted) :
        submitted[i].origin_slug = StageOrigin /\ submitted[i].pr_url = PrUrlOf(b)

\* C36: during a successful submit-to-origin of an item that was in
\* ready-to-submit, the work is recorded in at least one of the two
\* collections at every intermediate state: the SubmittedPR is written before
\* the ReadyToSubmitItem is removed, so a crash between the two writes leaves
\* the work in both collections and never in neither.
C36_NeverInNeither ==
    /\ \A b \in Branches :
          remotePr[b].state # "NONE" => (C36_InReady(b) \/ C36_InSubmitted(b))
    /\ sub.pc = "saved" => (C36_InReady(sub.branch) /\ C36_InSubmitted(sub.branch))

\* the process died between the two writes: the work is in both collections
C36_Witness ==
    /\ sub.pc = "idle"
    /\ sub.crashes = 1
    /\ C36_InReady(sub.branch)
    /\ C36_InSubmitted(sub.branch)

\* ---- C37 ----
\* C37: scored-issue ids identify issues uniquely: two distinct (owner, repo,
\* number) triples never produce the same id "github-" + owner + "-" + repo +
\* "-" + number, so two entries of a scored list with the same id are the
\* same issue of the same repository.
C37_UniqueIds ==
    stage2.pc \in {"store", "done"} =>
        LET issues == IssuesOf(stage2.result)
        IN  \A i \in 1..Len(issues), j \in 1..Len(issues) :
                issues[i].id = issues[j].id =>
                    (issues[i].repo = issues[j].repo /\ issues[i].number = issues[j].number)

\* a pass returns issue 1 of a/b-c and issue 1 of a-b/c under one id
C37_Collision ==
    /\ stage2.pc = "done"
    /\ stage2.source = "fallback"
    /\ LET issues == IssuesOf(stage2.result)
       IN  \E i \in 1..Len(issues), j \in 1..Len(issues) :
              /\ issues[i].repo = "a/b-c"
              /\ issues[j].repo = "a-b/c"
              /\ issues[i].number = 1
              /\ issues[j].number = 1
              /\ issues[i].id = "github-a-b-c-1"
              /\ issues[j].id = "github-a-b-c-1"

\* ---- C38 ----
\* C38 as stated: wait_for_fork issues at most floor(timeout / interval)
\* probes and sleeps only between probes, so a call that has returned has
\* slept fewer times than it probed.
C38_Original ==
    wf.pc \in {"true", "false"} =>
        /\ wf.probes <= wf.timeout \div wf.interval
        /\ wf.n <= Max2(wf.probes - 1, 0)

\* the call returned False after sleeping once more, after its last probe
C38_TrailingSleep ==
    /\ wf.pc = "false"
    /\ wf.probes = 3
    /\ wf.n = 3
    /\ wf.elapsed = 9

C38_Bounded ==
    wf.pc # "none" =>
        /\ wf.probes <= wf.timeout \div wf.interval
        /\ wf.n <= wf.timeout \div wf.interval
        /\ wf.pc \in {"probe", "false"} => wf.n = wf.probes
        /\ wf.pc \in {"sleep", "true"} => wf.n = wf.probes - 1
        /\ wf.pc = "false" => wf.probes = wf.timeout \div wf.interval

\* C38, amended: wait_for_fork always terminates: for every timeout and
\* interval >= 1 and every behaviour of the probe it issues at most
\* floor(timeout / interval) probes, sleeps once after each probe that failed
\* (the last one included), issues no probe after the bound is reached, and
\* then returns.
C38_Amended == []C38_Bounded /\ <>(wf.pc \in {"true", "false"})

\* the call returned False after exactly floor(10 / 3) probes
C38_Witness ==
    /\ wf.pc = "false"
    /\ wf.timeout = 10
    /\ wf.interval = 3
    /\ wf.probes = 3
    /\ wf.okProbes = 0

\* ---- C39 ----
\* C39: every result of the heuristic scorer has 0 <= cvs <= 100 and the
\* cvsTier the thresholds give for that cvs; the heuristic cvs never exceeds
\* 70, so the heuristic never yields tier go and never meets the condition
\* of the go-tier notification (cvs >= 85).
C39_ScoreRange ==
    scored =>
        /\ scoreOut.cvs >= 0
        /\ scoreOut.cvs <= 100
        /\ scoreOut.cvsTier = "go" <=> scoreOut.cvs >= 80
        /\ scoreOut.cvsTier = "likely" <=> (scoreOut.cvs >= 60 /\ scoreOut.cvs < 80)
        /\ scoreOut.cvsTier = "maybe" <=> (scoreOut.cvs >= 40 /\ scoreOut.cvs < 60)
        /\ scoreOut.cvsTier = "risky" <=> (scoreOut.cvs >= 20 /\ scoreOut.cvs < 40)
        /\ scoreOut.cvsTier = "skip" <=> scoreOut.cvs < 20
        /\ scoreOut.cvs <= 70
        /\ scoreOut.cvsTier # "go"
        /\ ~(scoreOut.cvs >= 85)

\* the highest score the heuristic gives: a fresh unassigned issue labelled
\* good first issue is scored 70, tier likely
C39_Witness ==
    /\ scored
    /\ issue.assignees = <<>>
    /\ "good first issue" \in LabelNamesOf(issue)
    /\ scoreOut.cvs = 70
    /\ scoreOut.cvsTier = "likely"

\* ---- C40 ----
C40_Durable == <<watchlist, selected, assignments, readyToSubmit, submitted>>

C40_Post(k) ==
    /\ C40_Durable' = C40_Durable
    /\ k # "" =>
        /\ \A x \in CacheKeys \ {k} : cacheFiles'[x] = cacheFiles[x]
        /\ ~cacheFiles'[k].exists
        /\ cleared'.n = IF cacheFiles[k].exists THEN 1 ELSE 0
    /\ k = "" =>
        /\ cleared'.n = Cardinality({x \in CacheKeys : cacheFiles[x].exists})
        /\ \A x \in CacheKeys : ~cacheFiles'[x].exists
        /\ \A x \in CacheKeys : get_cached(cacheFiles', environ', clock', x) = None

\* C40: clearing the cache, for one key or for all keys, changes only cache
\* entries: the watchlist, the selected issues, the assignments, the
\* ready-to-submit items and the submitted pull requests are unchanged;
\* clearing one key removes at most that key's entry and returns 1 if it
\* existed and 0 otherwise; clearing all returns the number of entries
\* removed, and get_cached then reports every key absent.
C40_ClearOnlyCache ==
    [][\A k \in CacheKeys \cup {""} : ClearCacheRet(k) => C40_Post(k)]_vars

\* both entries were cleared at once next to stores that hold records
C40_Witness ==
    /\ cleared.called
    /\ cleared.key = ""
    /\ cleared.n = 2
    /\ \A x \in CacheKeys : ~cacheFiles[x].exists
    /\ watchlist # <<>>
    /\ selected # <<>>
    /\ readyToSubmit # <<>>
    /\ submitted # <<>>

\* ---- C7 ----
\* C7: cache TTL boundary.  While caching is enabled, a get of key k at time
\* t returns, unchanged, the value last stored for k by set at time T (and
\* not invalidated since) whenever t - T < ttl, where ttl is the TTL in
\* effect at the get; it reports absent whenever t - T >= ttl and whenever
\* no value is stored for k: an expired value is never returned.
C7_TtlBoundary ==
    getRet.called =>
        LET s   == setArg[getRet.key]
            ttl == IF _is_local_dev(environ) THEN LOCAL_DEV_TTL ELSE DEFAULT_TTL
        IN  /\ (_is_cache_enabled(environ) /\ s.valid /\ clock - s.at < ttl)
                  => getRet.result = s.value
            /\ (~s.valid \/ clock - s.at >= ttl) => getRet.result = None

\* witness of C7: a get one second before expiry has returned the stored value
C7_Witness ==
    /\ getRet.called
    /\ _is_cache_enabled(environ)
    /\ setArg[getRet.key].valid
    /\ clock - setArg[getRet.key].at = DEFAULT_TTL - 1
    /\ ~_is_local_dev(environ)
    /\ getRet.result = setArg[getRet.key].value
    /\ getRet.result # None

\* the expiry instant itself: a get exactly ttl seconds after the set
C7_AtExpiry ==
    /\ getRet.called
    /\ _is_cache_enabled(environ)
    /\ setArg[getRet.key].valid
    /\ clock - setArg[getRet.key].at = LOCAL_DEV_TTL
    /\ _is_local_dev(environ)
    /\ getRet.result = None

\* ---- C8 ----
WatchKeys(items) == {<<items[i].owner, items[i].repo>> : i \in 1..Len(items)}

\* C8: after any sequence of add and remove operations the watchlist holds
\* at most one entry per (owner, repo); adding a pair already present leaves
\* the list unchanged, removing an absent pair leaves it unchanged, and each
\* entry stores owner and repo as separate fields with
\* slug = owner + "-" + repo.
C8_WatchlistUnique ==
    /\ \A i, j \in 1..Len(watchlist) :
          (watchlist[i].owner = watchlist[j].owner /\ watchlist[i].repo = watchlist[j].repo)
              => i = j
    /\ \A i \in 1..Len(watchlist) :
          watchlist[i].slug = watchlist[i].owner \o "-" \o watchlist[i].repo
    /\ (watchOp.op = "add" /\ watchOp.success
            /\ <<watchOp.owner, watchOp.repo>> \in WatchKeys(watchOp.before))
          => watchlist = watchOp.before
    /\ (watchOp.op = "add" /\ watchOp.success)
          => <<watchOp.owner, watchOp.repo>> \in WatchKeys(watchlist)
    /\ (watchOp.op = "remove" /\ watchOp.success
            /\ <<watchOp.owner, watchOp.repo>> \notin WatchKeys(watchOp.before))
          => watchlist = watchOp.before
    /\ (watchOp.op = "remove" /\ watchOp.success)
          => <<watchOp.owner, watchOp.repo>> \notin WatchKeys(watchlist)

\* witness of C8: ("vercel", "next.js") has been added while already present
\* and the list still has length 1 with slug "vercel-next.js"
C8_Witness ==
    /\ watchOp.op = "add" /\ watchOp.success
    /\ watchOp.owner = "vercel" /\ watchOp.repo = "next.js"
    /\ Len(watchOp.before) = 1
    /\ watchOp.before[1].owner = "vercel" /\ watchOp.before[1].repo = "next.js"
    /\ Len(watchlist) = 1
    /\ watchlist[1].slug = "vercel-next.js"

\* ---- C9 ----
GfiLabel(iss) ==
    \E i \in 1..Len(iss.labels) :
        iss.labels[i].name \in {"good first issue", "Good First Issue"}

Clamp(x) == IF x < 0 THEN 0 ELSE IF x > 100 THEN 100 ELSE x

C9_Tier(c) ==
    CASE c >= 80 -> "go" [] c >= 60 /\ c < 80 -> "likely" [] c >= 40 /\ c < 60 -> "maybe"
      [] c >= 20 /\ c < 40 -> "risky" [] OTHER -> "skip"

C9_Case == scored /\ issue.assignees = <<>>
           /\ issue.createdAt.kind = "iso" /\ issue.updatedAt.kind = "iso"

\* the score the claim gives when the two age tests are stale and old
C9_Expected(stale, old) ==
    Clamp(50 - (IF stale THEN 30 ELSE 0)
             - (IF issue.comments.n = 0 /\ old THEN 10 ELSE 0)
             + (IF GfiLabel(issue) THEN 20 ELSE 0))

C10_AssignedIsSkipped ==
    (scored /\ Len(issue.assignees) > 0) =>
        scoreOut = [cvs |-> 0, cvsTier |-> "skip", dataCompleteness |-> "partial"]

\* witness of C10: a fresh, labelled issue with one bare-string assignee has
\* been scored
C10_Witness ==
    /\ scored
    /\ issue.assignees = <<[shape |-> "str", name |-> "alice"]>>
    /\ GfiLabel(issue)
    /\ issue.updatedAt = [kind |-> "iso", t |-> ScoreNow]
    /\ scoreOut.cvs = 0

====
